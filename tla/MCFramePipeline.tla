--------------------------- MODULE MCFramePipeline ---------------------------
(* Small images for FramePipeline: equal sizes, sizes that divide each     *)
(* other and sizes that do not, and odd widths.                            *)
EXTENDS FramePipeline

Size(width, height) == [w |-> width, h |-> height]

Config(depth, visible, ir, split, onlySubscribed) ==
  [depth |-> depth, visible |-> visible, ir |-> ir,
   split |-> split, onlySubscribed |-> onlySubscribed]

MCConfigs ==
  {Config(Size(2, 2), Size(2, 2), Size(2, 2), TRUE, TRUE),
   Config(Size(2, 3), Size(3, 2), Size(3, 1), TRUE, FALSE),
   Config(Size(3, 2), Size(1, 2), Size(2, 3), TRUE, FALSE),
   Config(Size(4, 2), Size(2, 1), Size(3, 2), FALSE, FALSE),
   Config(Size(1, 1), Size(3, 1), Size(2, 2), FALSE, FALSE)}

MCPayloads ==
  {[len |-> 1, framed |-> FALSE], [len |-> 8, framed |-> TRUE],
   [len |-> 11, framed |-> TRUE], [len |-> 20, framed |-> TRUE]}

MCFrameSizes == {Size(2, 1), Size(3, 2), Size(4, 2), Size(5, 2)}
==============================================================================
