-------------------------- MODULE MCDebuggerLine --------------------------
(***************************************************************************)
(* The line of the debugger's command x, with the data stack it leaves,    *)
(* for TLC.                                                                *)
(***************************************************************************)
EXTENDS MCDebugger

VARIABLE
    left            \* history: the data stack the line left, or <<"none">>

NoLine == <<"none">>

LineInit == Init /\ left = NoLine

(* A line that came to its end leaves its stack; the next throw of another *)
(* kind, or the next instruction, ends what is said of it.                 *)
LineNext ==
    /\ Next
    /\ left' = IF Catch /\ Len(frames) = 2 /\ thrown = "out" THEN Held(vm'.data)
               ELSE IF Catch \/ TextForStepBreak THEN left
               ELSE NoLine

LineSpec == LineInit /\ [][LineNext]_<<vars, left>>

(* The doc of the debugger says of the words of x that any change they make *)
(* to the stacks will be preserved when the debugged word continues: whoever *)
(* is asked for the next command finds the stack as the line left it.       *)
(* ficlPrimitiveStepBreak throws RESTART after the line (tools.c), and the  *)
(* handler of the outer loop puts its own stack top back (vm.c:291).        *)
LinePreserved == at = "break" /\ left # NoLine => Held(vm.data) = left
=============================================================================
