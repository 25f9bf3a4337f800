SPECIFICATION Spec
CONSTANTS
  Margin = 4
  Widths = {3}
INVARIANT PictureIsCode
