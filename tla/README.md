# A TLA+ verification of clash

The repository holds the tools around a clash/Shadowsocks setup on one machine.
`clash_tun` (bin.tun) replaces a running clash proxy by a tunnel for the whole
machine and undoes that when the user presses Enter; `clash_sip002` prints the
current node as a QR code; the converter (bin.convert) turns a provider's node
list into a clash configuration; lib/ has what the programs share. The programs
report every failure by `assert()`: a failed call aborts the process where it
stands and leaves the machine as it is. What can go wrong is therefore less
*what* a call returns than *where* the program stops, in which order it and the
other processes act, and what the next run finds.

## Inventory

| part | state | operations | what is hard |
|---|---|---|---|
| status.c | a word (DOWN, FAIL, UP), mutex, condition variable | init, change_to, change_from_to, wait_change_from | interleavings, spurious wakeups, one signal for all |
| shadowsocks2.c | the server thread | start_ss, stop_ss, callback, start_routine | callback, failure, stop and Ctrl-C race; a wait nobody ends |
| main.c | gw, child pid | main, set, reset, start_tun2socks | abort between any two steps, re-run on what is left, unwaited child, network changes |
| privilege.c | effective ids | escalate, drop | order, nesting, user steps as root |
| bus.c | connection | restart and flush systemd-resolved | the restart is only queued |
| proc.c | a snapshot of the process table | kill_sync | the snapshot is stale; clash must be a foreground job |
| netlink.c, ioctl.c | a socket, a static buffer | tun0, addresses, flags, routes, route dump | what the kernel refuses; answers without sequence numbers |
| restful.c | a static buffer | now | three reads that are not one; answers in pieces |
| yaml2profile.c | parser | yaml2profile | skipping by counting ENDs; a file that is not all there |
| convert.c | parser, emitter, shared credentials, nine lists | main, skip_node, group, emit_* | the same; one set of credentials for all nodes; a file without the list |
| flag.c | - | ccs2str | the buffer at its limit |
| bin.sip002/main.c | the menu, stdin's buffer, the QR matrix | lan, sip002, base64encode, qr_unicode | type-ahead and end of input; a node selected during an item; URIs too short for the code; odd heights |
| resolv.c | - | resolv | servers with no address, or with several |
| profile.c | the profile, /tmp/ss-local.json | profile_loaded, profile_to_json | what an earlier run left in /tmp; refusals half way |
| clash.sh | config.yaml, downloads, old files | clash_run, clash_update | the file is written where it is read |
| examples/, garbage.c, utf8count.c | | | not part of an installed program |

How they interact: `main()` asks clash for the node (`now()`), looks it up in
the configuration the converter wrote (`yaml2profile()`), swaps the resolver's
files and has systemd-resolved restarted, kills clash, starts the server thread
(which talks to main only through the status word and SIGINT), builds tun0 over
netlink, forks tun2socks and waits. Then it goes back the same way. `clash_sip002`
uses the same two lookups once per menu item, while the user selects nodes in
clash. `clash_run` (clash.sh) has the converter write straight into the file that
both programs read, perhaps while an earlier clash still answers. PROJECT.json
lists the hazards line by line.

## Modules

| module | models | kind |
|---|---|---|
| StatusMonitor | status.c, one action per mutex or condition operation | detailed |
| StatusCell | what status.c promises: a word changed and observed in one step | abstract |
| SsThread (extends StatusMonitor) | shadowsocks2.c: main and server thread, callback, signals; the refinement mapping to SsService | composition |
| SsService | what start_ss/stop_ss promise main | abstract |
| Rtnetlink | the kernel's tun0 and main routing table as netlink.c and ioctl.c use them | component |
| NetlinkSocket | request, answer segments and the receive buffer of netlink.c | component |
| ClashTun (extends Rtnetlink) | bin.tun/main.c with privilege.c, bus.c, proc.c | composition |
| Restful | now() against clash's API; has no specification of its own | component |
| Sip002 (extends Restful) | clash_sip002's menu, its stdin, and now() called item after item | composition |
| YamlTokens | libyaml's token streams | external |
| Convert | convert.c | component |
| Yaml2profile | yaml2profile.c | component |
| Resolv | resolv.c: the list getaddrinfo() gives and what is asserted of it | algorithm |
| Profile (extends Yaml2profile, which extends Resolv) | profile.c and main()'s steps around it | component |
| ConfigPipeline (extends Convert and Profile) | the converter's output, whole or cut short, as the input of the lookup by clash_tun or clash_sip002 | composition |
| Flag | ccs2str() | algorithm |
| QrUnicode | qr_unicode() | algorithm |
| \*MC | constants for TLC | |
| StatusMonitorProofs, SsThreadProofs, NetlinkSocketProofs, ClashTunProofs, Sip002Proofs, PipelineProofs, FlagProofs, QrUnicodeProofs | the theorems about these modules and what they extend | proofs |

Conventions: an action is one statement or call of the code and has its whole
effect; a failed `assert()` is an action too (`failed`, `"abort"`). Definitions
named `...Forgotten`, `...Unchecked` and the like, marked "Mutant", are wrong
versions of the definition after them and are used by no specification; they
show that the properties notice such a mistake.

**StatusMonitor.** `st[t]` says where thread t is in its call: waiting for the
mutex, testing the word, acting on the test, asleep, releasing. The mutex is a
set of holders so that exclusion is something to check. A signal wakes one
sleeper, a sleeper may wake without one and must take the mutex again.

**SsThread.** `loc[t]` is the next statement outside status.c. The server
library either returns -1 or calls back once and serves until its SIGINT
watcher fires; whether SIGINT finds the watcher, the default action or a thread
that has returned is resolved nondeterministically. The process ends when
main() returns: the server thread is not joined.

**Rtnetlink / ClashTun.** A route is destination, device, next hop, metric and
protocol, which is what the kernel compares. `pc` is the next call of main(),
`todo` the escalation or the drop around it. Besides main() there are systemd's
queued restart, clash, tun2socks of each run, the DHCP client, and an operator
who cleans up after an abort as readme.md and test.sh do. Mishaps are counted:
a crash anywhere, Ctrl-C, clash ending or coming back, Enter before the child's
exec, a new lease, a lost carrier. clash runs as the foreground job of its
terminal or in the background; `Readproctab` asserts the former (proc.c:38-43), so
a run on a machine whose clash is in the background stops there, after the
resolver's files have been changed. `host` tells whose server
/tmp/ss-local.json names and which run made the route to the server; servers of
different runs are taken for different ones. The file is unlinked in `Select` and
written in `Record`, so that a run can end between the two. The child that fork()
makes has no identity of its own in the model: it starts with the user's, opens
its log and becomes root for its exec (main.c:55), and `UserStepsUnprivileged` is
about main() alone. The send and the receive of a request are
one action there; NetlinkSocket takes them apart.

**Restful / Sip002.** A call of now() is up to three requests; the user may
select between any two of them. `seen` is a ghost: the selections there were since
the call, from which the properties tell a call during which nothing was selected
(`Quiet`). `tty` has the lines typed and not yet read, `stdin` what stdio has
buffered: read() on a terminal returns one line, getchar() takes one character of
it, `__fpurge` drops the rest, later lines stay with the terminal. At the end of
input getchar() returns at once and the program prints all remaining items. The
model has a terminal: with a pipe the first purge drops everything and the end of
input follows. Of the text only the lengths of method and password are modelled,
from which follows that the base64 text fits the array computed for it. The version
of the code, of which the program asks 5 at least, is libqrencode's choice and
depends on the whole URI (with the hint QR_MODE_8 it still packs alphanumeric runs
more tightly than bytes): `Version` gives it for each node and tag.

**Convert / Yaml2profile.** The scanner's tokens KEY scalar VALUE scalar are
one PAIR, since neither program treats them apart except to assert their order.
Names are abstracted to the set of countries whose needles they contain, values
to small strings; what counts is their equality and whether they are shorter
than three bytes. `Raw` is a provider's file, `Config` the emitted one as it is
scanned back.

**ConfigPipeline.** The file is opened whole (`OpenWhole`) or cut short
(`OpenCut`), because the converter is still writing it or has aborted. A cut may be
anywhere: the token it falls into is left out, is scanned with a shorter value, or
is an error, and libyaml closes what is open. A name cut short may happen to be the
one that is looked for. Nothing of the header is there or all of it, because
stdio writes a regular file in blocks of 4096 bytes and the header is shorter than
that; an empty file makes yaml2profile() abort on its first assertions.

**Resolv / Profile.** `Addresses` says which IPv4 addresses a host has; the list
of getaddrinfo() has three entries for each, and resolv() insists on exactly
three. clash_tun (`resolve_domain`) goes on to `unlink_nofail` and
`profile_to_json`; an abort anywhere in this chain comes before it has touched the
machine. ClashTun has the chain in its actions `Select` and `Record`; there
only a clash that does not run makes it fail, and whatever else does is a crash at
these points. The file in /tmp may be a leftover of an earlier run or belong to another user:
`assert(errno=ENOENT)` (main.c:109) assigns and lets a failed unlink pass, so it
is the write that stops such a run. `Bare` are the values that `match()` accepts.

## Runs

| run | bound | what it shows |
|---|---|---|
| status_monitor | 3 threads, six calls: init, change to UP, change DOWN to FAIL and UP to DOWN, wait for a change from DOWN and from UP | exclusion; a test made under the lock holds when acted on; waits return a change; refinement of StatusCell |
| ss_thread | the program's two threads | assertions on the word hold, no lost wakeup, the word is true, stop_ss ends, refinement of SsService (start_ss answers) |
| clash_tun | 2 runs, 2 mishaps, 2 gateways, with and without a cable, clash in the foreground or not | resolver files conserved, user steps unprivileged, a quiet run never aborts, a clean exit restores, the session is tunnelled, no loop, a route left behind is one the record names; main() hangs nowhere but at the prompt, systemd-resolved follows the files |
| netlink_socket | 3 requests, dumps of 3 segments, a buffer of 5 | each answer is its own request's; the room is exact; receive ends |
| restful | 3 nodes (one not in the configuration), 2 nested groups, DIRECT, 2 selections, 2 pieces, 3 menu items, 3 lines | now() returns a node or aborts; answers stay apart from call to call; an item during which nobody selects prints the active node under its tag; one line confirms one item; every confirmed item ends |
| config_pipeline | files of up to 3 nodes out of 11 kinds, 3 layouts; hosts with 0, 1 and 2 addresses, 3 leftovers in /tmp; cut files of up to 2 nodes | nothing lost or mixed up, groups fit, lookups find, what is found in a cut file is whole, the lookup ends, the conversion ends for every file with the list and never succeeds without it |
| flag | up to 7 flags | no overrun, six flags accepted |
| qr_unicode | all 3x3 matrices | every row but the last, and the margin |

Why the bounds suffice. Three threads are one more than a signal can wake. Two
runs show what one run, aborted or clean, does to the next; two mishaps show a
mishap in a run that began on the leavings of another. Two gateways tell a stale
`gw` from the current one. Two selections are the least that make now() return
a node that was never active. The menu of the program has six items, five of them
codes; two codes show what one leaves to the next, and one node has a code of
version 5 under one tag and of version 4 under the other. Three lines confirm all three items. Two
nodes in a cut file are one to be skipped and one to be cut. Three nodes put a dropped one between two others.
Seven flags are one too many for the buffer. A code of width 3 has a pair of
rows and the odd one. What is proved below holds for every bound.

Deadlock checking is off for status_monitor only, where a failed assertion ends
the process.

Runs that are meant to fail, each on what a comment or a document says:

| run | the code | the text |
|---|---|---|
| ss_thread_served | the thread of a stopped server waits for ever | shadowsocks2.c:42-43 asserts it gets UP |
| restful_active | a selection during now() can yield a node never in use | main.c:140 |
| convert_break | an indented list at the end of a dropped node ends the conversion early and silently | convert.c:466 |
| qr_unicode_tail | the last row is printed from row 0 | bin.sip002/main.c:139 |

One difference that no run is about: reset() puts the default route back as
`proto boot` without a metric, where readme.md:64 and test.sh:27 restore the DHCP
client's own. `CleanExitRestores` therefore compares device and next hop, and
`QuietRunCompletes` shows that the next run can live with it.

## Fairness

Only what scheduling gives. Threads and processes that can take a step take one
(weak fairness). A thread of SsThread that wants the mutex gets it in the end
although the other one may wake spuriously again and again: strong fairness on
taking the mutex, without which a pthread mutex would be useless. clash and
tun2socks handle a SIGINT that reaches them, systemd runs its queue, clash answers
clash_sip002's requests. Nothing
makes the server call back, the user press Enter, type a line or select a node, a mishap happen or a signal
come.

## Proofs

All for every value of the constants that satisfies the assumptions of the
module: any number of threads, requests, segments, runs, mishaps, nodes, menu
items and lines, any width of a code. Each inductive invariant is a conjunction
of named parts in the proof module, and a lemma per action or per part.

* **StatusMonitorProofs**: `MonitorInv` adds to exclusion that a thread at "act"
  or "unlock" is the holder and that its test still holds; it is inductive
  because only the holder writes the word. From it follow `MutexExclusion`,
  `TestStillTrue`, `WaitReturnsChange` and the refinement `MonitorRefinesCell`:
  ActChange, ActInit and ActWait are the linearisation points, all other steps are
  calls, returns, refusals or stutters.
* **SsThreadProofs** builds on it: the inductive invariant says, for every pair
  of places of the two threads, what the word is and which call each is in.
  That no wakeup is lost needs it: main sleeps only while the server thread has
  not yet changed the word. `ThreadRefinesService` is the safety of `IsSsService`:
  the callback and the failure decide the server's fate, the return of start_ss()
  is the answer, and the answer is right because of what main was told by
  status_wait_change_from (`AnswersKnown`).
* **ClashTunProofs** has three layers. `CoreInv` ties the effective ids to `pc` and
  `todo` and the resolver files to `pc`, through crashes and any number of runs
  and mishaps; a run that starts on files left half way must stop at its first
  rename. `MachineInv` adds types, the routes there can be (one without a metric
  per destination, since the kernel refuses a second), what reset() has undone and
  the open descriptors; it holds whatever mishaps happen and gives the
  unconditional half of `CleanExitRestores`. `RecordInv` on top of it gives
  `RecordNamesRoute`: as long as there is a route to the server the files are those
  of the tunnel, so the next run stops at its first rename and never gets to make
  a route of its own beside it. `QuietInv` says for the time before
  the first mishap where link, routing table, server, child and clash are at each
  point of main(); with it every assertion is shown to hold but the four of
  `Refused` (no clash to ask, resolver files left half way, clash in the
  background, a gateway that is the cable's), and
  `QuietRunCompletes`, `SessionTunnelled` and `NoLoopBeforeKill` follow.
  QuietRunCompletes alone is far from inductive: that a call succeeds depends on
  what all calls before it, and the run before, have left in the kernel.
* **NetlinkSocketProofs**: the queue is empty between requests and otherwise the
  unread rest of the answer to the last one, in which only the final segment stops
  receive(); hence `AnswerIsOwn`, although nothing in a segment is compared with the
  request. The offset and the room move together, hence `RoomIsExact`.
* **Sip002Proofs**: `NowInv` says what is in the static buffer and, while nobody
  selects, how far the name asked for has come on the way from GLOBAL to the
  node in use; `MenuInv` adds the menu around the call and `TerminalInv` counts the
  lines. They give `ReturnsNode`, `AnswersSeparate`, `QuietItemIsRight` and
  `OneLineOneItem`. Groups may be nested to any depth.
* **PipelineProofs**, for files of any length, is in three parts.
  `GroupInv`: each of the nine lists holds exactly the names that belong there, so
  does each group that is written, and one is left out only when it is empty
  (`Right`, put together call by call): `GroupsFitNodes`.

  `ConvertInv` finds out from what is left of the file where the converter is: k
  nodes are done and the next is read up to its j-th token (`AtNode`), so that the
  file is the rest of this node's tokens and those of the nodes after it; what is
  emitted is then the usable ones of the first k (`Out`). With every token that is
  read k and j move on together, through skip_node() with its count of open
  mappings and through a list whose END it takes for the node's own. `EmittedAsListed`
  alone is not inductive: it says nothing of what is still to be read. It holds for
  every layout and every kind of node; `NothingLost` needs that of an expected file
  the loop is left only when all nodes are done, and that an assert() on the stored
  credentials compares two usable nodes (`Disagree`). `OldFileNeverDone` is the
  safety half of `ConvertEnds`; `EmitsOwnCredentials` says of every single step that
  the node it emits has its own credentials.

  `LookupInv` is about the stream that yaml2profile() has opened: its first n
  tokens are those that were written, then comes a token that may be torn, then
  nothing but END (`Opened`). While it looks, it is at the j-th token, and all nodes
  before are of other names (`Place`), or beyond the cut, where it can only abort
  (`Past`): a torn name that happens to be the one looked for is found there, but
  no type follows it. Hence the profile is the first node of the name, complete
  (`Taken`), or the file is whole and there is an excuse: `LookupFindsNode`.

  The tokens of a file come out of FlattenSeq. What it makes of one more sequence
  (`FlatStep`), of one in front (`FlatFirst`) and of sequences of ten tokens
  (`FlatTen`) is proved by taking the least number for which it fails (`NatInd`,
  from the well-foundedness of < on the naturals).

  Three assumptions, which TLC evaluates in config_pipeline: files are finite,
  nodes are of the kinds of `Extra`, and (`UsableAssumption`) a node that is let
  through has no empty value and a positive port, and no host the address
  0.0.0.0. yaml2profile(), resolv() and profile_loaded() assert these; a list
  that breaks them makes the lookup abort for another reason than those that
  LookupFindsNode allows. The other theorems do not use it.
* **FlagProofs**: at most nine bytes a round, so s <= 9n, for every
  MAX_FLAGS_IN_GROUP and every MB_CUR_MAX of at least 4.
* **QrUnicodeProofs**: the loop and its counter determine how many lines are out
  (`CountInv`), and `Printed` which character each column of each has, for every
  matrix of odd width and every even margin. `PictureExceptLastRow` then is
  arithmetic on halves, and the one row it leaves out is the one that the run
  qr_unicode_tail is about.

Only model-checked, and why:

* `StopTerminates`, `RunEnds`, `ResolvedFollows`, `ReceiveEnds`, `PromptAnswered`,
  `ConvertEnds`, `LookupEnds` and the fairness of `IsSsService`: liveness under
  fairness is out of the prover's reach.

Every invariant and every action property of the passing runs is a theorem.

## Not modelled

* profile_clear() and qr_execl(), which nothing calls; examples/, garbage.c and
  utf8count.c, which no meson.build names; the parts of netlink.c and ioctl.c that
  are commented out.
* Ports of more than seven digits, for which profile.c:166 has no room, and values
  longer than the fixed buffers of convert.c.
* The layout of netlink messages (`attr`), the text of the URI and of the base64
  encoding, the contents of log files: formatting.
* Several clash processes at once and the reuse of a pid.
* clash_update of clash.sh: downloads and the shuffling of old files by a person
  at a prompt.
* Flow-style YAML, which both readers refuse.
* In clash_run, the provider "dler" (clash.sh:228-230): its list goes through
  another converter, clash_convert_dler, which writes the keys of a node in an order
  on which yaml2profile() aborts. Also the rewriting of the file by opencc into
  traditional characters (clash.sh:238): clash reads the rewritten file and the
  lookup too, so a name in the model is the name after it. sponge writes the file a
  second time, and a reader can then meet it cut short as under `OpenCut`.
* Routes of the local table with a prefix of 24 and link scope, which
  netlink_get_gateway() would skip, and then end without clearing the buffer: the
  kernel has no such routes.

A file without the key "proxies" is read for ever by the converter, since libyaml
keeps answering after the end of the stream. The model does the same;
`ConvertEnds` says that such a file is never taken for an empty list.

## Plan

1. Done: StatusMonitor, SsThread, Rtnetlink, ClashTun with clash in the foreground
   or the background, NetlinkSocket, Restful and Sip002, Convert, Yaml2profile,
   Resolv, Profile and their pipeline over whole and cut files, Flag, QrUnicode; the
   theorems above, with which every safety invariant of the runs is proved.
2. Next: an abstract "tunnel switch" that ClashTun refines, from the same
   invariants.
3. Then: kill_sync with several processes.
