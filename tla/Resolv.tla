------------------------------- MODULE Resolv --------------------------------
(***************************************************************************)
(* lib/resolv.c: the IPv4 address of a server.  getaddrinfo() lists every   *)
(* address once for each kind of socket; resolv() takes the first entry and *)
(* asserts that the list is what one single address gives.                  *)
(***************************************************************************)
EXTENDS Naturals, Sequences

CONSTANT Addresses    \* host -> its IPv4 addresses, in the order of the answer

SockTypes == <<"stream", "dgram", "raw">>

\* The answer: no entry stands for an error code.  Only the first one carries
\* the canonical name.
getaddrinfo(host) ==
  [i \in 1..3 * Len(Addresses[host]) |->
     [socktype  |-> SockTypes[((i - 1) % 3) + 1],
      addr      |-> Addresses[host][((i - 1) \div 3) + 1],
      canonname |-> i = 1]]

\* Mutant: the list may go on.
ResolvesFirst(host) == getaddrinfo(host) # <<>>

\* common123 and common23 on each entry, and no entry after the third.
Resolves(host) ==
  LET res == getaddrinfo(host)
  IN  /\ Len(res) = 3
      /\ \A i \in 1..3 :
           /\ res[i].socktype = SockTypes[i]
           /\ res[i].addr # "0.0.0.0" /\ res[i].addr = res[1].addr
           /\ res[i].canonname <=> i = 1

resolv(host) == getaddrinfo(host)[1].addr
==============================================================================
