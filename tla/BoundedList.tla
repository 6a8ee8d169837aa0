------------------------------ MODULE BoundedList ------------------------------
(***************************************************************************)
(* What the caches of the agent promise, without their rings: every owner  *)
(* has a list of entries, newest first, never longer than Capacity and     *)
(* never with two entries of one key.  A new entry takes the place of the  *)
(* one with its key; an entry leaves because it is replaced, because it is *)
(* the oldest of a full list, because it is dropped by name, or because    *)
(* the list as a whole is loaded, once in the life of an owner, or lost    *)
(* when the owner's life ends.  Nothing else is ever reordered, lost or    *)
(* brought back.  RouteLearning implements it: ExamplesAreBoundedList.     *)
(***************************************************************************)
EXTENDS Naturals, Sequences, SequencesExt

CONSTANTS Owners, Items, Capacity, KeyOf(_)

VARIABLES list,      \* list[o]: the entries of o, newest first
          loaded     \* the owners that have loaded their list

lvars == <<list, loaded>>

Entries == [item : Items, vec : BOOLEAN]

First(seq, n) == IF Len(seq) <= n THEN seq ELSE SubSeq(seq, 1, n)

WellFormed(seq) ==
    /\ Len(seq) <= Capacity
    /\ \A m, n \in DOMAIN seq :
          m # n => KeyOf(seq[m].item) # KeyOf(seq[n].item)

Init == list = [o \in Owners |-> <<>>] /\ loaded \subseteq Owners

\* The list without its entry in the set, if it has one.
Without(seq, some) ==
    IF \E n \in DOMAIN seq : seq[n] \in some
    THEN RemoveAt(seq, CHOOSE n \in DOMAIN seq : seq[n] \in some)
    ELSE seq

Insert(o, e) ==
    /\ list' = [list EXCEPT ![o] =
                  First(<<e>> \o Without(@, {x \in Entries : KeyOf(x.item) = KeyOf(e.item)}),
                        Capacity)]
    /\ UNCHANGED loaded

Drop(o, item) ==
    /\ list' = [list EXCEPT ![o] = Without(@, {x \in Entries : x.item = item})]
    /\ UNCHANGED loaded

\* The vector of an entry comes later than the entry.
Fill(o, item) ==
    /\ list' = [list EXCEPT ![o] =
                  [n \in DOMAIN @ |-> IF @[n].item = item
                                      THEN [@[n] EXCEPT !.vec = TRUE] ELSE @[n]]]
    /\ UNCHANGED loaded

Load(o) ==
    /\ o \notin loaded
    /\ loaded' = loaded \cup {o}
    /\ WellFormed(list'[o])
    /\ list' = [list EXCEPT ![o] = list'[o]]

Lose(o) ==
    /\ list' = [list EXCEPT ![o] = <<>>]
    /\ loaded' = loaded \ {o}

Next == \E o \in Owners : \/ \E e \in Entries : Insert(o, e)
                          \/ \E item \in Items : Drop(o, item) \/ Fill(o, item)
                          \/ Load(o)
                          \/ Lose(o)

Spec == Init /\ [][Next]_lvars
=============================================================================
