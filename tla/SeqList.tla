------------------------------- MODULE SeqList -------------------------------
(***************************************************************************)
(* What node.h of src/cs2106_lab1 promises: a sequence of numbers, counted *)
(* from 0, with the answers its driver prints after an instruction.        *)
(***************************************************************************)
EXTENDS Integers, SequencesExt

CONSTANTS Numbers, Functions

VARIABLES
  items,
  reply   \* the last instruction and what the driver printed for it

Total(s) == FoldLeft(LAMBDA a, b : a + b, 0, s)

Change(instr, new) == items' = new /\ reply' = <<instr>>
Answer(instr, numbers) == reply' = <<instr>> \o numbers /\ UNCHANGED items

Init == items = <<>> /\ reply = <<>>

Insert ==
  \E i \in 0 .. Len(items), d \in Numbers : Change("insert", InsertAt(items, i + 1, d))

Delete == \E i \in 0 .. Len(items) - 1 : Change("delete", RemoveAt(items, i + 1))

Search ==
  \E e \in Numbers :
    IF Contains(items, e)
    THEN \E i \in 0 .. Len(items) - 1 :
           /\ items[i + 1] = e
           /\ \A j \in 1 .. i : items[j] # e
           /\ Answer("search", <<e, i>>)
    ELSE Answer("search", <<e, -1>>)

Apply == \E f \in Functions : Change("map", [i \in DOMAIN items |-> f[items[i]]])

Next ==
  \/ Insert \/ Delete \/ Search \/ Apply
  \/ Change("reverse", Reverse(items)) \/ Change("reset", <<>>)
  \/ Answer("show", items) \/ Answer("len", <<Len(items)>>)
  \/ Answer("sum", <<Total(items)>>)
=============================================================================
