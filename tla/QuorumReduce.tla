---------------------------- MODULE QuorumReduce ----------------------------
(***************************************************************************)
(* What cmd/radio-utils.go and quorumInfo of cmd/radio.go compute from the *)
(* answers of the replicas, as pure operators.  The loops that compute it  *)
(* in the code are in ReduceErrs and QuorumInfoLoop; the modules of the    *)
(* object layer use the operators of this module.                          *)
(*                                                                         *)
(* An answer slice ([]error, []ObjectInfo) is a function from the client   *)
(* indexes to values: Nil or an error value, NoTag or a radio tag.         *)
(***************************************************************************)
EXTENDS Integers, FiniteSets

CONSTANTS Nil,      \* the nil error
          NoTag     \* the empty string: no x-amz-meta-radio-tag in the answer

\* How many answers of the slice are equal to v.
Count(answers, v) == Cardinality({i \in DOMAIN answers : answers[i] = v})

\* len(answers)/2+1, the quorum every caller passes.
Majority(answers) == Cardinality(DOMAIN answers) \div 2 + 1

\* reduceQuorumErrs without ignored errors: the value answered by a quorum, or
\* quorumErr when there is none.  With quorum >= Majority at most one value
\* qualifies, so CHOOSE has no choice.
ReduceQuorumErrs(errs, quorum, quorumErr) ==
  IF \E i \in DOMAIN errs : Count(errs, errs[i]) >= quorum
  THEN CHOOSE e \in {errs[i] : i \in DOMAIN errs} : Count(errs, e) >= quorum
  ELSE quorumErr

\* quorumInfo, lines 368-377: a tag qualifies when MORE than len/2+1 replicas
\* carry it, and the empty tag stands for "none found".
QuorumTags(tags) ==
  {t \in {tags[i] : i \in DOMAIN tags} : Count(tags, t) > Majority(tags)}
    \ {NoTag}

\* quorumInfo, lines 379-388: the first index that carries the tag.
FirstIndex(tags, t) ==
  CHOOSE i \in DOMAIN tags :
    /\ tags[i] = t
    /\ \A j \in DOMAIN tags : tags[j] = t => i <= j
=============================================================================
