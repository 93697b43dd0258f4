------------------------------ MODULE ByteQueue ------------------------------
(***************************************************************************)
(* What net/buffer.h promises: a queue of bytes, filled at the back (and,  *)
(* for headers, at the front), drained at the front.                       *)
(***************************************************************************)
EXTENDS Naturals, Sequences

CONSTANT Strings   \* what one call may put in

VARIABLES content, taken   \* taken: what the last read returned

vars == <<content, taken>>

Prefix(s, n) == [i \in 1..n |-> s[i]]
Rest(s, n) == [i \in 1..(Len(s) - n) |-> s[i + n]]

Init == content = <<>> /\ taken = <<>>

PutBack(d) == content' = content \o d /\ UNCHANGED taken

PutFront(d) == content' = d \o content /\ UNCHANGED taken

DropFront(n) == content' = Rest(content, n) /\ UNCHANGED taken

DropBack(n) == content' = Prefix(content, Len(content) - n) /\ UNCHANGED taken

TakeFront(n) == content' = Rest(content, n) /\ taken' = Prefix(content, n)

Next ==
  \/ \E d \in Strings : PutBack(d) \/ PutFront(d)
  \/ \E n \in 0..Len(content) : DropFront(n) \/ DropBack(n) \/ TakeFront(n)

Spec == Init /\ [][Next]_vars
=============================================================================
