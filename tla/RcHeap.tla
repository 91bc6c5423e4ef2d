------------------------------- MODULE RcHeap -------------------------------
(***************************************************************************)
(* What a program compiled with --rc keeps on the heap, in the shape that  *)
(* both backends give it.  A heap h is a record:                           *)
(*   rc     the reference count of every str or bytes block (0: freed);    *)
(*   vec    per vector Null (freed) or its struct: rc, the static element  *)
(*          type kind, len, cap and the slots data;                        *)
(*   map    Null or the one map: rc, key and value types kk and vk, nb     *)
(*          buckets b, each a chain of entries [k, v], and len;            *)
(*   cells  how many blocks are allocated for structs, data arrays, bucket *)
(*          arrays, entries and boxes (a bytes or struct element);         *)
(*   err    whether a freed block was retained, released or freed again.   *)
(* Object 0 stands for a literal or NULL, which have no header: counting   *)
(* passes over them.  A struct value is its one str field.                 *)
(***************************************************************************)
EXTENDS Integers, SequencesExt

CONSTANTS Objs, Vecs, Content, Hash, Cap0, Nb0, Null

EmptyHeap == [rc |-> [o \in Objs |-> 0], vec |-> [v \in Vecs |-> Null],
              map |-> Null, cells |-> 0, err |-> FALSE]

Boxed(kind) == kind \in {"bytes", "box"}

Elems(w) == [i \in 1..w.len |-> w.data[i - 1]]

\* The bytes that the hash and the comparison of a key look at.
KeyOf(kk, k) == IF kk = "i64" THEN k ELSE Content[k]

Bucket(m, k) == Hash[KeyOf(m.kk, k)] % m.nb

\* The entries in bucket order.
Entries(m) == FlattenSeq([i \in 1..m.nb |-> m.b[i - 1]])

\* The place of k in its chain, or 0.
Place(m, k) ==
    LET c == m.b[Bucket(m, k)]
    IN  SelectInSeq(c, LAMBDA e : KeyOf(m.kk, e.k) = KeyOf(m.kk, k))

\* map_get and map_has: the entry's value, Null when there is no entry.
Lookup(m, k) ==
    LET p == Place(m, k) IN IF p = 0 THEN Null ELSE m.b[Bucket(m, k)][p].v
=============================================================================
