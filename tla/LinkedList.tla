----------------------------- MODULE LinkedList -----------------------------
(***************************************************************************)
(* The lists of src/cs2106_lab1, ex2 and ex3: nodes from malloc linked     *)
(* from lst->head, one action per instruction of the driver.  The program  *)
(* is "ex2" or "ex3", which differ in their instructions and in what       *)
(* delete_node_at frees.  A cell that malloc hands out again may still     *)
(* hold its old link.  A program that reads a cell it has no memory for,   *)
(* or follows links round a circle, is lost and not followed further.      *)
(***************************************************************************)
EXTENDS Integers, SequencesExt

CONSTANTS
  Cells,     \* bound: the cells malloc has
  NULL, LOST,
  Elements,  \* the numbers inserted and searched for
  MaxData    \* bound: no function is mapped whose results exceed it

ASSUME ListAssumption ==
  /\ IsFiniteSet(Cells) /\ NULL \notin Cells /\ LOST \notin Cells \cup {NULL}
  /\ MaxData \in Nat /\ Elements \subseteq 0 .. MaxData

VARIABLES
  program,
  head,        \* lst->head
  cell,        \* cell[n]: [data, next]
  allocated,   \* the cells malloc handed out and free did not get back
  reply,       \* the last instruction and what it printed
  lost,        \* the program has left its memory
  size,        \* history: the nodes the instructions so far should have left
  stray,       \* history: the first node of this list was given an old link
  forgotten    \* history: cells that delete_node_at took out and did not free

vars == <<program, head, cell, allocated, reply, lost, size, stray, forgotten>>

Init ==
  /\ program \in {"ex2", "ex3"}
  /\ head = NULL
  /\ cell = [n \in Cells |-> [data |-> 0, next |-> NULL]]
  /\ allocated = {} /\ forgotten = {}
  /\ reply = <<>>
  /\ lost = FALSE /\ stray = FALSE
  /\ size = 0

(* Where the links from the head lead. *)
Follow(n) == IF n \in allocated THEN cell[n].next ELSE LOST
Steps == 0 .. Cardinality(Cells)
At == LET Node[k \in Steps] == IF k = 0 THEN head ELSE Follow(Node[k - 1]) IN Node
Ends == \E k \in Steps : At[k] = NULL
Nodes == [k \in 1 .. (CHOOSE k \in Steps : At[k] = NULL) |-> At[k - 1]]
Contents == [k \in DOMAIN Nodes |-> cell[Nodes[k]].data]

Lose ==
  /\ lost' = TRUE
  /\ UNCHANGED <<program, head, cell, allocated, reply, size, stray, forgotten>>

(* insert_node_at.  An empty list gets a node whose link nobody sets: NULL, as
   in fresh memory, or what its cell last held. *)
InsertEmpty(n, d) ==
  \E link \in {NULL, cell[n].next} :
    /\ cell' = [cell EXCEPT ![n] = [data |-> d, next |-> link]]
    /\ head' = n
    /\ stray' = (link # NULL)

InsertFirst(n, d) ==
  /\ cell' = [cell EXCEPT ![n] = [data |-> d, next |-> head]]
  /\ head' = n
  /\ UNCHANGED stray

InsertAfter(m, n, d) ==
  /\ cell' = [cell EXCEPT ![n] = [data |-> d, next |-> cell[m].next], ![m].next = n]
  /\ UNCHANGED <<head, stray>>

InsertNodeAt ==
  /\ ~lost
  /\ \E i \in 0 .. size, d \in Elements :
       IF head # NULL /\ LOST \in {At[1], At[i]}
       THEN Lose
       ELSE /\ \E n \in Cells \ allocated :
                 /\ CASE head = NULL -> InsertEmpty(n, d)
                      [] head # NULL /\ i = 0 -> InsertFirst(n, d)
                      [] OTHER -> InsertAfter(At[i - 1], n, d)
                 /\ allocated' = allocated \cup {n}
            /\ size' = size + 1 /\ reply' = <<"insert">>
            /\ UNCHANGED <<program, lost, forgotten>>

(* delete_node_at frees nothing at the head, and in ex3 nothing at all.  A
   seeded fault: nor in ex2. *)
FreedNot(n, i) == {}
Freed(n, i) == IF i > 0 /\ program = "ex2" THEN {n} ELSE {}

DeleteNodeAt ==
  /\ ~lost
  /\ \E i \in 0 .. size - 1 :
       IF At[i + 1] = LOST
       THEN Lose
       ELSE /\ IF i = 0
               THEN head' = At[1] /\ UNCHANGED cell
               ELSE cell' = [cell EXCEPT ![At[i - 1]].next = At[i + 1]] /\ UNCHANGED head
            /\ allocated' = allocated \ Freed(At[i], i)
            /\ forgotten' = allocated' \cap
                 (IF i > 0 /\ program = "ex2" THEN forgotten ELSE forgotten \cup {At[i]})
            /\ size' = size - 1 /\ reply' = <<"delete">>
            /\ UNCHANGED <<program, lost, stray>>

(* The other functions walk the list from its head to a NULL. *)
Walk(Effect) ==
  /\ ~lost
  /\ IF Ends THEN Effect /\ UNCHANGED <<program, lost, stray>> ELSE Lose

Output(instr, numbers) ==
  Walk(reply' = <<instr>> \o numbers /\ UNCHANGED <<head, cell, allocated, size, forgotten>>)

(* search_list stops at the first node that holds the number. *)
Found(e) == {k \in Steps : At[k] \in allocated /\ cell[At[k]].data = e}

SearchList ==
  \E e \in Elements :
    IF Found(e) = {}
    THEN Output("search", <<e, -1>>)
    ELSE /\ ~lost
         /\ reply' = <<"search", e, Min(Found(e))>>
         /\ UNCHANGED <<program, head, cell, allocated, lost, size, stray, forgotten>>

(* print_list, list_len, sum_list *)
PrintList == program = "ex2" /\ Output("show", Contents)
ListLen == program = "ex3" /\ Output("len", <<Len(Nodes)>>)
SumList == program = "ex3" /\ Output("sum", <<FoldLeft(LAMBDA a, b : a + b, 0, Contents)>>)

Position(n) == CHOOSE k \in DOMAIN Nodes : Nodes[k] = n

(* In the cells of the list; the others keep what they hold. *)
Rewrite(instr, newHead, Data(_), Link(_)) ==
  Walk(/\ cell' = [n \in Cells |->
                     IF n \in ToSet(Nodes) THEN [data |-> Data(n), next |-> Link(n)] ELSE cell[n]]
       /\ head' = newHead
       /\ reply' = <<instr>>
       /\ UNCHANGED <<allocated, size, forgotten>>)

(* A seeded fault: prevNode is not NULL at the start but the head. *)
BeforeInRing(n) == IF n = head THEN head ELSE Nodes[Position(n) - 1]
Before(n) == IF n = head THEN NULL ELSE Nodes[Position(n) - 1]

ReverseList ==
  Rewrite("reverse", IF head = NULL THEN NULL ELSE Nodes[Len(Nodes)], LAMBDA n : cell[n].data, Before)

(* func_list: add_one, add_two, multiply_five, square, cube. *)
FuncList ==
  {[x \in 0 .. MaxData |-> x + 1], [x \in 0 .. MaxData |-> x + 2], [x \in 0 .. MaxData |-> x * 5],
   [x \in 0 .. MaxData |-> x * x], [x \in 0 .. MaxData |-> x * x * x]}

Map ==
  /\ program = "ex3"
  /\ \E f \in FuncList :
       /\ Ends => \A k \in DOMAIN Contents : f[Contents[k]] <= MaxData
       /\ Rewrite("map", head, LAMBDA n : f[cell[n].data], LAMBDA n : cell[n].next)

(* A seeded fault: the list still leads to the nodes freed. *)
HeadKept == head
HeadAfterReset == NULL

ResetList ==
  Walk(/\ allocated' = allocated \ ToSet(Nodes)
       /\ forgotten' = forgotten \ ToSet(Nodes)
       /\ head' = HeadAfterReset
       /\ size' = 0 /\ reply' = <<"reset">>
       /\ UNCHANGED cell)

Next ==
  \/ InsertNodeAt \/ DeleteNodeAt \/ ReverseList \/ ResetList \/ Map
  \/ PrintList \/ SearchList \/ ListLen \/ SumList

Spec == Init /\ [][Next]_vars

-----------------------------------------------------------------------------

Items == IF Ends THEN Contents ELSE <<-1>>

Promise == INSTANCE SeqList WITH
  Numbers <- Elements, Functions <- FuncList, items <- Items, reply <- reply

(***************************************************************************)
(* After any sequence of instructions the links hold the sequence they     *)
(* should, and the driver prints of it what it should, as long as the      *)
(* first node, whose link insert_node_at does not set, was not given an    *)
(* old one.                                                                *)
(***************************************************************************)
ImplementsList == Promise!Init /\ [][stray' \/ Promise!Next]_<<Items, reply>>

(***************************************************************************)
(* Without such a link no instruction reads a cell that was freed, NULL or *)
(* a list without an end.                                                  *)
(***************************************************************************)
StaysInMemory == lost => stray

(***************************************************************************)
(* A cell that was not freed is in the list, or is one that delete_node_at *)
(* took out without freeing it.                                            *)
(***************************************************************************)
MemoryAccountedFor ==
  ~stray => allocated \ ToSet(Nodes) = forgotten
=============================================================================
