------------------------------ MODULE LogBook ------------------------------
(***************************************************************************)
(* What the debug log promises whoever reads it: a book of whole entries,  *)
(* each by one call, that only ever grows at its end.  A call may fail to  *)
(* write its entry, but never writes part of another's.                    *)
(***************************************************************************)
EXTENDS Integers

CONSTANT Calls

VARIABLES
  writer, \* the call that has the book, in a set of at most one
  book    \* place -> the call whose entry can be read there; places are read in their order

vars == <<writer, book>>

Init == writer = {} /\ DOMAIN book = {}

Take(c)  == writer = {} /\ writer' = {c} /\ UNCHANGED book

\* The entry is read after all the others; they do not move.
Write(c) ==
  /\ writer = {c} /\ UNCHANGED writer
  /\ \E n \in DOMAIN book' :
       /\ \A m \in DOMAIN book : m < n
       /\ book' = [m \in DOMAIN book \cup {n} |-> IF m = n THEN c ELSE book[m]]

GiveBack == writer' = {} /\ UNCHANGED book

Next == GiveBack \/ \E c \in Calls : Take(c) \/ Write(c)

Spec == Init /\ [][Next]_vars
=============================================================================
