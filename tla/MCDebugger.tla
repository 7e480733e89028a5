---------------------------- MODULE MCDebugger ----------------------------
(***************************************************************************)
(* Two words, one calling the other, for TLC.                              *)
(***************************************************************************)
EXTENDS FiclDebugger

TwoWords == {"foo", "bar"}

(* : bar prim ;   : foo begin bar until ; *)
TwoBodies(w) ==
    CASE w = "bar" -> <<Prim, Exit>>
      [] w = "foo" -> <<Call("bar"), Branch0(<<"foo", 1>>), Exit>>

(* Bound: x is followed where the program stands at its breakpoint.        *)
Bounded ==
    Len(frames) > 1 => vm.return.cell[frames[2].entry.return] = breakpoint.address
=============================================================================
