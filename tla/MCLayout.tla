----------------------------- MODULE MCLayout -----------------------------
EXTENDS Layout

Wide    == [cols |-> 6, rows |-> 2]
Narrow  == [cols |-> 2, rows |-> 4]
MCSizes == {Wide, Narrow}
MCMoves == {-9, 2}

(* The smallest size the web UI asks for (workspace.ts:740). *)
Smallest == [cols |-> 20, rows |-> 5]
UIOnly   == {Smallest}
Far      == {18}
===========================================================================
