------------------------------ MODULE Containers ------------------------------
(***************************************************************************)
(* The containers of utils: datalist.c (with stringlist.c on top of it),   *)
(* dataqueue.c and dataset.c.  Each is a chain of iterators with a pointer *)
(* to its last one; a list and a set keep the iterators they no longer     *)
(* need, a queue gives them back to malloc.  The chain is shown to hold    *)
(* the sequence its calls describe, until one of the calls that break it.  *)
(*                                                                         *)
(* An iterator is a number, 0 stands for NULL; what it holds is an item,   *)
(* in a set an item with its name and whether it has a type.               *)
(*                                                                         *)
(* Not modelled: failures of malloc, the reference counts, what a type     *)
(* does when it copies and frees its data, and the strings of a set.       *)
(***************************************************************************)
EXTENDS Naturals, Sequences, SequencesExt, FiniteSetsExt

CONSTANTS Iterators, \* in the order in which the memory block gives them
          Items, Names

ASSUME IteratorsAssumption == IsFiniteSet(Iterators) /\ Iterators \subseteq Nat \ {0}

VARIABLES kind,  \* "list", "queue" or "set"
          chain, \* [first, last, n, next, data, free]; used: taken from the memory block
          items, \* history: the sequence that it should hold
          odd    \* history: a call has done what nobody wants

containerVars == <<kind, chain, items, odd>>

-----------------------------------------------------------------------------
(* Chains.                                                                 *)

NoData == ""

Empty == [first |-> 0, last |-> 0, n |-> 0, free |-> 0, used |-> {},
          next |-> [it \in Iterators |-> 0], data |-> [it \in Iterators |-> NoData]]

\* From the first to the one with no next; too long when the chain is a ring.
Walk(c) ==
    LET N == Cardinality(Iterators)
        step[k \in 0..N] ==
            IF k = 0 THEN c.first ELSE IF step[k - 1] = 0 THEN 0 ELSE c.next[step[k - 1]]
    IN  [k \in 1..Cardinality({j \in 0..N : step[j] # 0}) |-> step[k - 1]]

\* Where alloc_..._iterator may find one: the kept ones first, then the next
\* of the memory block; for a queue any that is free.
Available(c) ==
    CASE kind = "queue" -> Iterators \ ToSet(Walk(c))
      [] kind # "queue" /\ c.free # 0 -> {c.free}
      [] OTHER -> IF c.used = Iterators THEN {} ELSE {Min(Iterators \ c.used)}

Take(c, it, d) == [c EXCEPT !.free = IF it = @ THEN c.next[it] ELSE @, !.used = @ \cup {it},
                            !.next[it] = 0, !.data[it] = d, !.n = @ + 1]

\* free_..._iterator.
Release(c, it) ==
    IF kind = "queue" THEN [c EXCEPT !.n = @ - 1]
    ELSE [c EXCEPT !.n = @ - 1, !.next[it] = c.free, !.data[it] = NoData, !.free = it]

LinkLast(c, it) == IF c.last = 0 THEN [c EXCEPT !.first = it, !.last = it]
                   ELSE [c EXCEPT !.next[c.last] = it, !.last = it]

Appended(c, it, d) == LinkLast(Take(c, it, d), it)

\* Mutant: the last pointer stays with the iterator that leaves.
BadUnlink(c, i) ==
    LET w == Walk(c)
        cut == IF i = 1 THEN [c EXCEPT !.first = c.next[w[1]], !.last = IF w[1] = @ THEN 0 ELSE @]
               ELSE [c EXCEPT !.next[w[i - 1]] = c.next[w[i]]]
    IN  Release(cut, w[i])

\* The i-th of the walk leaves, as in datalist_remove_data, datalist_remove,
\* dataqueue_remove and dataset_remove.
Unlink(c, i) ==
    LET w == Walk(c)
        cut == IF i = 1 THEN [c EXCEPT !.first = c.next[w[1]], !.last = IF w[1] = @ THEN 0 ELSE @]
               ELSE [c EXCEPT !.next[w[i - 1]] = c.next[w[i]],
                              !.last = IF w[i] = @ THEN w[i - 1] ELSE @]
    IN  Release(cut, w[i])

\* The places of the walk that hold one of D.
Matches(D) == {i \in DOMAIN Walk(chain) : chain.data[Walk(chain)[i]] \in D}

-----------------------------------------------------------------------------

ContainerInit == kind \in {"list", "queue", "set"} /\ chain = Empty /\ items = <<>> /\ odd = FALSE

Spoilt == odd' = TRUE /\ UNCHANGED <<kind, chain, items>>

Becomes(c, s) == chain' = c /\ items' = s /\ UNCHANGED <<kind, odd>>

\* datalist_append, stringlist_append, dataqueue_append.  A queue that was
\* emptied has its last pointer on an iterator it has freed.
AppendItem(d) ==
    IF chain.first = 0 /\ chain.last # 0 THEN Spoilt
    ELSE \E it \in Available(chain) : Becomes(Appended(chain, it, d), Append(items, d))

\* The first of D is removed, or nothing.
RemoveWhere(D) ==
    /\ Matches(D) # {}
    /\ LET i == Min(Matches(D)) IN Becomes(Unlink(chain, i), RemoveAt(items, i))

\* datalist_remove_data, stringlist_remove, dataqueue_remove.
RemoveItem(d) == RemoveWhere({d})

-----------------------------------------------------------------------------
(* Lists.                                                                  *)

\* datalist_insert, stringlist_insert, datalist_insert_type: at the front and
\* at the end; behind the end of an empty list there is no last, and in the
\* middle the new iterator is counted and linked to from nowhere.
Insert(i, d) ==
    CASE i = 0 -> \E it \in Available(chain) :
                      Becomes([Take(chain, it, d) EXCEPT
                                  !.next[it] = chain.first, !.first = it,
                                  !.last = IF @ = 0 THEN it ELSE @], <<d>> \o items)
      [] i > 0 /\ i >= chain.n /\ chain.last # 0 -> AppendItem(d)
      [] OTHER -> Spoilt

\* datalist_remove looks at the second before it takes the first.
RemoveIndex(i) ==
    /\ i < chain.n
    /\ IF chain.n = 1 THEN Spoilt ELSE Becomes(Unlink(chain, i + 1), RemoveAt(items, i + 1))

\* datalist_copy, from a list of two, clears the list but not its count.
CopyList(d, e) ==
    IF chain.n > 0 THEN Spoilt
    ELSE \E it \in Available(chain) :
             LET c == Appended(chain, it, d)
             IN  \E jt \in Available(c) : Becomes(Appended(c, jt, e), <<d, e>>)

ListNext ==
    /\ kind = "list"
    /\ \/ \E d \in Items : \/ AppendItem(d) \/ RemoveItem(d)
                           \/ \E i \in 0..Len(items)+1 : Insert(i, d)
       \/ \E i \in 0..Len(items) : RemoveIndex(i)
       \/ \E d, e \in Items : CopyList(d, e)

-----------------------------------------------------------------------------
(* Queues.                                                                 *)

\* dataqueue_next, dataqueue_getnext.
NextItem == chain.n > 0 /\ Becomes(Unlink(chain, 1), Tail(items))

\* dataqueue_empty.
EmptyQueue == Becomes([chain EXCEPT !.first = 0, !.n = 0], <<>>)

QueueNext ==
    /\ kind = "queue"
    /\ (\E d \in Items : AppendItem(d) \/ RemoveItem(d)) \/ NextItem \/ EmptyQueue

-----------------------------------------------------------------------------
(* Sets: each name once, with plain data or with data of a type.           *)

DataOf(N, D) == [name : N, typed : BOOLEAN, data : D]

Named(n) == Matches(DataOf({n}, Items))

\* dataset_insert_data, dataset_insert_value: a new name goes to the end; a
\* value written over typed data loses it.
InsertData(n, d, value) ==
    IF Named(n) = {} THEN AppendItem([name |-> n, typed |-> FALSE, data |-> d])
    ELSE LET i == Min(Named(n))
         IN  IF value /\ items[i].typed THEN Spoilt
             ELSE Becomes([chain EXCEPT !.data[Walk(chain)[i]].data = d],
                          [items EXCEPT ![i].data = d])

\* dataset_insert_type: the type of plain data is looked at all the same.
InsertType(n, d) ==
    IF Named(n) = {} THEN AppendItem([name |-> n, typed |-> TRUE, data |-> d])
    ELSE ~items[Min(Named(n))].typed /\ Spoilt

\* dataset_remove, dataset_remove_data.
RemoveName(n) == RemoveWhere(DataOf({n}, Items))
RemoveData(d) == RemoveWhere(DataOf(Names, {d}))

SetNext ==
    /\ kind = "set"
    /\ \/ \E n \in Names, d \in Items : InsertType(n, d) \/ \E v \in BOOLEAN : InsertData(n, d, v)
       \/ \E n \in Names : RemoveName(n)
       \/ \E d \in Items : RemoveData(d)

ContainerNext == ~odd /\ (ListNext \/ QueueNext \/ SetNext)

ContainerSpec == ContainerInit /\ [][ContainerNext]_containerVars

-----------------------------------------------------------------------------

\* Until a call that breaks it, a chain holds what its calls put in, in their
\* order and once; its count and its last pointer agree with it, no iterator
\* in use is among those to be used again, and a set has every name once.
ContentsKept ==
    ~odd => LET w == Walk(chain)
            IN  /\ [i \in DOMAIN w |-> chain.data[w[i]]] = items
                /\ chain.n = Len(items)
                /\ IF w # <<>> THEN chain.last = Last(w) ELSE kind = "queue" \/ chain.last = 0
                /\ kind # "queue" => ToSet(w) \cap ToSet(Walk([chain EXCEPT !.first = chain.free])) = {}
                /\ kind = "set" => \A i, j \in DOMAIN items : items[i].name = items[j].name => i = j
=============================================================================
