------------------------------- MODULE Listeners -------------------------------
(***************************************************************************)
(* The listener vectors of MemoryPubSub (listeners_) and of Callback       *)
(* (entries_): entries are appended at the end and erased wherever they    *)
(* are, the others keeping their order (erase(remove_if(...))).            *)
(*                                                                         *)
(* Without is written with ranks instead of recursion, so that facts about *)
(* it can be proved for vectors of every length.                           *)
(***************************************************************************)
EXTENDS Naturals, Sequences, FiniteSets

Elements(seq) == {seq[i] : i \in 1 .. Len(seq)}

(* The place of position i among the positions K.                          *)
Rank(K, i) == Cardinality({j \in K : j <= i})

Kept(seq, S) == {i \in 1 .. Len(seq) : seq[i] \notin S}

(* vec.erase(remove_if(vec, is in S)).                                     *)
Without(seq, S) ==
  LET K == Kept(seq, S)
  IN IF K = 1 .. Len(seq) THEN seq
     ELSE [k \in 1 .. Cardinality(K) |-> seq[CHOOSE i \in K : Rank(K, i) = k]]

Distinct(seq) == \A i, j \in 1 .. Len(seq) : seq[i] = seq[j] => i = j
===============================================================================
