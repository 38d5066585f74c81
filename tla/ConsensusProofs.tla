-------------------------- MODULE ConsensusProofs --------------------------
(***************************************************************************)
(* Theorems about Consensus, for any number of validators and observers,   *)
(* any connections, payloads and bounds: what a step of a node keeps       *)
(* whatever it handles, restarts included, the type invariant, and what    *)
(* holds of votes and locks.                                               *)
(***************************************************************************)
EXTENDS Consensus, FiniteSetTheorems, TLAPS

-----------------------------------------------------------------------------
(* Quorums.                                                                *)

LEMMA ValidatorsFinite ==
    IsFiniteSet(Validators) /\ Cardinality(Validators) = N
BY FS_Interval, NAssumption DEF Validators

\* Anything signed by a quorum of a larger set of votes is signed by one.
LEMMA VotersMonotone ==
    ASSUME NEW A, NEW B, A \subseteq B, \A v \in B : v.validator \in Validators
    PROVE  /\ Voters(A) \subseteq Voters(B)
           /\ Voters(B) \in SUBSET Validators
           /\ Cardinality(Voters(A)) \in Nat
           /\ Cardinality(Voters(A)) <= Cardinality(Voters(B))
<1>1. Voters(A) \subseteq Voters(B) /\ Voters(B) \subseteq Validators
  BY DEF Voters
<1>2. IsFiniteSet(Voters(B))
  BY <1>1, ValidatorsFinite, FS_Subset
<1>3. IsFiniteSet(Voters(A)) /\ Cardinality(Voters(A)) <= Cardinality(Voters(B))
  BY <1>1, <1>2, FS_Subset
<1> QED
  BY <1>1, <1>3, FS_CardinalityType

(* Any three quorums share a validator, because 3q > 2n.  Two would not be *)
(* enough: a validator that precommits a block it has not received takes   *)
(* no lock, so the one that matters must have both prevoted and            *)
(* precommitted the finalized block, and prevoted the later one.           *)
LEMMA ThreeQuorumsMeet ==
    ASSUME NEW A \in SUBSET Validators, NEW B \in SUBSET Validators,
           NEW C \in SUBSET Validators,
           Cardinality(A) >= QuorumOf(N), Cardinality(B) >= QuorumOf(N),
           Cardinality(C) >= QuorumOf(N)
    PROVE  \E v \in Validators : v \in A /\ v \in B /\ v \in C
<1>1. /\ IsFiniteSet(A) /\ IsFiniteSet(B) /\ IsFiniteSet(C)
      /\ IsFiniteSet(A \cap B)
  BY ValidatorsFinite, FS_Subset, FS_Intersection
<1>2. /\ Cardinality(A \cup B) = Cardinality(A) + Cardinality(B) - Cardinality(A \cap B)
      /\ IsFiniteSet(A \cup B)
  BY <1>1, FS_Union
<1>3. /\ Cardinality((A \cap B) \cup C) =
            Cardinality(A \cap B) + Cardinality(C) - Cardinality((A \cap B) \cap C)
      /\ IsFiniteSet((A \cap B) \cup C)
  BY <1>1, FS_Union
<1>4. Cardinality(A \cup B) <= N /\ Cardinality((A \cap B) \cup C) <= N
  <2>1. A \cup B \in SUBSET Validators /\ (A \cap B) \cup C \in SUBSET Validators
    OBVIOUS
  <2> QED
    BY <2>1, ValidatorsFinite, FS_Subset
<1>5. IsFiniteSet((A \cap B) \cap C)
  BY <1>1, FS_Intersection
<1>6. /\ Cardinality(A) \in Nat /\ Cardinality(B) \in Nat /\ Cardinality(C) \in Nat
      /\ Cardinality(A \cap B) \in Nat /\ Cardinality((A \cap B) \cap C) \in Nat
      /\ Cardinality(A \cup B) \in Nat /\ Cardinality((A \cap B) \cup C) \in Nat
  BY <1>1, <1>2, <1>3, <1>5, FS_CardinalityType
<1>7. 3 * QuorumOf(N) > 2 * N
  BY NAssumption DEF QuorumOf
<1>8. QuorumOf(N) \in Nat
  BY NAssumption DEF QuorumOf
<1>9. Cardinality((A \cap B) \cap C) > 0
  BY <1>2, <1>3, <1>4, <1>6, <1>7, <1>8, NAssumption
<1>10. (A \cap B) \cap C # {}
  BY <1>9, FS_EmptySet
<1> QED
  BY <1>10

-----------------------------------------------------------------------------
(* Which fields of a node's record an operation may change.                *)

Fields ==
    {"up", "height", "round", "proposal", "votes", "prevoted", "precommitted",
     "locked", "valid", "evidence", "blocks", "latest", "snap", "walCommit",
     "walLocked", "walValid", "protection", "jailed", "proposals", "ballots",
     "commits"}

IsNode(s) == DOMAIN s = Fields

Changes(s, t, F) == IsNode(t) /\ \A f \in Fields \ F : t[f] = s[f]

LEMMA ChangesTransitive ==
    ASSUME NEW s, NEW t, NEW u, NEW F, NEW G, Changes(s, t, F), Changes(t, u, G)
    PROVE  Changes(s, u, F \cup G)
BY DEF Changes

LEMMA PersistSnapshotChanges ==
    ASSUME NEW s, IsNode(s)
    PROVE  /\ Changes(s, PersistSnapshot(s), {"snap"})
           /\ PersistSnapshot(s).snap = [height |-> s.height, round |-> s.round]
BY DEF Changes, IsNode, Fields, PersistSnapshot

LEMMA ResetRoundChanges ==
    ASSUME NEW s, IsNode(s)
    PROVE  LET t == ResetRound(s)
           IN  /\ Changes(s, t, {"proposal", "votes", "prevoted", "precommitted"})
               /\ t.proposal = {} /\ t.votes = {}
               /\ t.prevoted = FALSE /\ t.precommitted = FALSE
BY DEF Changes, IsNode, Fields, ResetRound

\* t is s at the start of height next.
AtHeight(s, t, next) ==
    /\ Changes(s, t, {"proposal", "votes", "prevoted", "precommitted",
                      "height", "round", "locked", "valid", "snap"})
    /\ t.height = next /\ t.round = 0
    /\ t.proposal = {} /\ t.votes = {} /\ t.locked = {} /\ t.valid = {}
    /\ t.prevoted = FALSE /\ t.precommitted = FALSE
    /\ t.snap = [height |-> next, round |-> 0]

LEMMA AdvanceHeightChanges ==
    ASSUME NEW s, IsNode(s), NEW next
    PROVE  AtHeight(s, AdvanceHeight(s, next), next)
<1> DEFINE r == ResetRound(s)
           a == [r EXCEPT !.height = next, !.round = 0, !.locked = {}, !.valid = {}]
<1>1. /\ Changes(s, r, {"proposal", "votes", "prevoted", "precommitted"})
      /\ r.proposal = {} /\ r.votes = {}
      /\ r.prevoted = FALSE /\ r.precommitted = FALSE
  BY ResetRoundChanges
<1> HIDE DEF r
<1>2. /\ Changes(r, a, {"height", "round", "locked", "valid"})
      /\ a.height = next /\ a.round = 0 /\ a.locked = {} /\ a.valid = {}
  BY <1>1 DEF Changes, IsNode, Fields
<1>3. /\ a.proposal = {} /\ a.votes = {}
      /\ a.prevoted = FALSE /\ a.precommitted = FALSE
  BY <1>1, <1>2 DEF Changes, Fields
<1> HIDE DEF a
<1>4. /\ Changes(a, PersistSnapshot(a), {"snap"})
      /\ PersistSnapshot(a).snap = [height |-> a.height, round |-> a.round]
  BY <1>2, PersistSnapshotChanges DEF Changes
<1>5. AdvanceHeight(s, next) = PersistSnapshot(a)
  BY DEF AdvanceHeight, a, r
<1> QED
  BY <1>1, <1>2, <1>3, <1>4, <1>5 DEF AtHeight, Changes, Fields

LEMMA AdvanceRoundChanges ==
    ASSUME NEW s, IsNode(s)
    PROVE  LET t == AdvanceRound(s)
           IN  /\ Changes(s, t, {"proposal", "votes", "prevoted", "precommitted",
                                 "round", "snap"})
               /\ t.round = s.round + 1
               /\ t.proposal = {} /\ t.votes = {}
               /\ t.prevoted = FALSE /\ t.precommitted = FALSE
               /\ t.snap = [height |-> s.height, round |-> s.round + 1]
<1> DEFINE r == ResetRound(s)
           a == [r EXCEPT !.round = @ + 1]
<1>1. /\ Changes(s, r, {"proposal", "votes", "prevoted", "precommitted"})
      /\ r.proposal = {} /\ r.votes = {}
      /\ r.prevoted = FALSE /\ r.precommitted = FALSE
  BY ResetRoundChanges
<1> HIDE DEF r
<1>2. Changes(r, a, {"round"}) /\ a.round = r.round + 1
  BY <1>1 DEF Changes, IsNode, Fields
<1>3. /\ a.proposal = {} /\ a.votes = {} /\ a.round = s.round + 1 /\ a.height = s.height
      /\ a.prevoted = FALSE /\ a.precommitted = FALSE
  BY <1>1, <1>2 DEF Changes, Fields
<1> HIDE DEF a
<1>4. /\ Changes(a, PersistSnapshot(a), {"snap"})
      /\ PersistSnapshot(a).snap = [height |-> a.height, round |-> a.round]
  BY <1>2, PersistSnapshotChanges DEF Changes
<1>5. AdvanceRound(s) = PersistSnapshot(a)
  BY DEF AdvanceRound, a, r
<1> QED
  BY <1>1, <1>2, <1>3, <1>4, <1>5 DEF Changes, Fields

LEMMA WalCommitFinalizedChanges ==
    ASSUME NEW s, IsNode(s), NEW h
    PROVE  /\ Changes(s, WalCommitFinalized(s, h), {"walCommit"})
           /\ WalCommitFinalized(s, h).walCommit \in {h, s.walCommit}
BY DEF Changes, IsNode, Fields, WalCommitFinalized

LEMMA CommitBlockChanges ==
    ASSUME NEW s, IsNode(s), NEW f
    PROVE  /\ Changes(s, CommitBlock(s, f), {"blocks", "latest"})
           /\ CommitBlock(s, f).blocks =
                 {g \in s.blocks : g.block.height # f.block.height} \cup {f}
           /\ CommitBlock(s, f).latest = {f.block}
BY DEF Changes, IsNode, Fields, CommitBlock

LEMMA ApplyPendingEvidenceChanges ==
    ASSUME NEW s, IsNode(s)
    PROVE  LET t == ApplyPendingEvidence(s)
           IN  /\ Changes(s, t, {"jailed", "evidence"})
               /\ t.evidence = {}
               /\ t.jailed = s.jailed \cup {e.validator : e \in s.evidence}
BY DEF Changes, IsNode, Fields, ApplyPendingEvidence

\* t is what finalize leaves of s when it finalizes the block of hash.
FinalizedTo(s, t, hash) ==
    /\ s.proposal = hash
    /\ Changes(s, t, {"proposal", "votes", "prevoted", "precommitted",
                      "height", "round", "locked", "valid", "snap",
                      "walCommit", "blocks", "latest", "jailed",
                      "evidence", "commits"})
    /\ t.height = s.height + 1 /\ t.round = 0
    /\ t.proposal = {} /\ t.votes = {} /\ t.locked = {} /\ t.valid = {}
    /\ t.prevoted = FALSE /\ t.precommitted = FALSE
    /\ t.snap = [height |-> s.height + 1, round |-> 0]
    /\ t.walCommit \in {s.height, s.walCommit}
    /\ t.evidence = {}
    /\ t.jailed = s.jailed \cup {e.validator : e \in s.evidence}
    /\ \E f : /\ f.block \in hash /\ t.latest = {f.block}
              /\ f.block.parent = s.latest
              /\ f.votes = {v \in s.votes : v.step = "precommit" /\ v.hash = hash}
              /\ t.blocks = {g \in s.blocks : g.block.height # f.block.height} \cup {f}
              /\ t.commits = s.commits \cup {f}

LEMMA FinalizeChanges ==
    ASSUME NEW s, IsNode(s), NEW hash, hash # Nil
    PROVE  \/ Finalize(s, hash) = s
           \/ FinalizedTo(s, Finalize(s, hash), hash)
<1> DEFINE f == [block |-> CHOOSE b \in hash : TRUE,
                 votes |-> {v \in s.votes : v.step = "precommit" /\ v.hash = hash}]
           w == WalCommitFinalized(s, s.height)
           c == CommitBlock(w, f)
           d == [c EXCEPT !.commits = @ \cup {f}]
           e == ApplyPendingEvidence(d)
<1>1. CASE s.proposal # hash \/ \E b \in hash : b.parent # s.latest
  BY <1>1 DEF Finalize
<1>2. CASE ~(s.proposal # hash \/ \E b \in hash : b.parent # s.latest)
  <2>1. Finalize(s, hash) = AdvanceHeight(e, s.height + 1)
    BY <1>2 DEF Finalize
  <2>2. /\ f.block \in hash /\ f.block.parent = s.latest
        /\ f.votes = {v \in s.votes : v.step = "precommit" /\ v.hash = hash}
    BY <1>2 DEF Nil
  <2> HIDE DEF f
  <2>3. Changes(s, w, {"walCommit"}) /\ w.walCommit \in {s.height, s.walCommit}
    BY WalCommitFinalizedChanges
  <2> HIDE DEF w
  <2>4. /\ Changes(w, c, {"blocks", "latest"})
        /\ c.blocks = {g \in w.blocks : g.block.height # f.block.height} \cup {f}
        /\ c.latest = {f.block}
    BY <2>3, CommitBlockChanges DEF Changes
  <2> HIDE DEF c
  <2>5. Changes(c, d, {"commits"}) /\ d.commits = c.commits \cup {f}
    BY <2>4 DEF Changes, IsNode, Fields
  <2> HIDE DEF d
  <2>6. /\ Changes(d, e, {"jailed", "evidence"})
        /\ e.evidence = {}
        /\ e.jailed = d.jailed \cup {x.validator : x \in d.evidence}
    BY <2>5, ApplyPendingEvidenceChanges DEF Changes
  <2> HIDE DEF e
  <2>7. /\ Changes(s, e, {"walCommit", "blocks", "latest", "commits", "jailed", "evidence"})
        /\ e.walCommit \in {s.height, s.walCommit}
        /\ e.blocks = {g \in s.blocks : g.block.height # f.block.height} \cup {f}
        /\ e.commits = s.commits \cup {f}
        /\ e.latest = {f.block} /\ e.evidence = {}
        /\ e.jailed = s.jailed \cup {x.validator : x \in s.evidence}
    BY <2>3, <2>4, <2>5, <2>6 DEF Changes, Fields
  <2> DEFINE next == s.height + 1
             t == AdvanceHeight(e, next)
  <2>8. AtHeight(e, t, next)
    <3>1. IsNode(e)
      BY <2>7 DEF Changes
    <3> HIDE DEF next
    <3> QED
      BY <3>1, AdvanceHeightChanges
  <2> HIDE DEF t
  <2>9. /\ Changes(s, t, {"proposal", "votes", "prevoted", "precommitted",
                          "height", "round", "locked", "valid", "snap",
                          "walCommit", "blocks", "latest", "jailed",
                          "evidence", "commits"})
        /\ t.walCommit \in {s.height, s.walCommit}
        /\ t.latest = {f.block} /\ t.evidence = {}
        /\ t.jailed = s.jailed \cup {x.validator : x \in s.evidence}
        /\ t.blocks = {g \in s.blocks : g.block.height # f.block.height} \cup {f}
        /\ t.commits = s.commits \cup {f}
    BY <2>7, <2>8 DEF AtHeight, Changes, Fields
  <2>10. FinalizedTo(s, t, hash)
    BY <1>2, <2>2, <2>8, <2>9 DEF FinalizedTo, AtHeight
  <2> QED
    BY <2>1, <2>10 DEF t
<1> QED
  BY <1>1, <1>2

LEMMA ObservePolkaChanges ==
    ASSUME NEW s, IsNode(s), NEW hash
    PROVE  LET t == ObservePolka(s, hash)
           IN  /\ Changes(s, t, {"valid", "walValid", "locked", "walLocked"})
               /\ \/ /\ hash = Nil \/ s.proposal # hash
                     /\ t = s
                  \/ /\ hash # Nil /\ s.proposal = hash
                     /\ t.locked = {[round |-> s.round, block |-> b] : b \in hash}
                     /\ t.valid = t.locked
                     /\ t.walLocked = t.locked /\ t.walValid = t.locked
BY DEF Changes, IsNode, Fields, ObservePolka

LEMMA SignBallotChanges ==
    ASSUME NEW s, IsNode(s), NEW v
    PROVE  LET t == SignBallot(s, v)
           IN  /\ Changes(s, t, {"prevoted", "precommitted", "ballots"})
               /\ t.ballots = s.ballots \cup {v}
               /\ IF v.step = "prevote"
                  THEN t.prevoted = TRUE /\ t.precommitted = s.precommitted
                  ELSE t.precommitted = TRUE /\ t.prevoted = s.prevoted
BY DEF Changes, IsNode, Fields, SignBallot

\* record_vote either notes evidence, or counts the vote and may lock.
LEMMA RecordVoteChanges ==
    ASSUME NEW s, IsNode(s), NEW v
    PROVE  LET t == RecordVote(s, v)
           IN  \/ Conflicts(s, v) /\ Changes(s, t, {"evidence"})
               \/ /\ ~Conflicts(s, v)
                  /\ Changes(s, t, {"votes", "valid", "walValid", "locked", "walLocked"})
                  /\ t.votes = s.votes \cup {v}
                  /\ \/ /\ t.locked = s.locked /\ t.valid = s.valid
                        /\ t.walLocked = s.walLocked /\ t.walValid = s.walValid
                        /\ ~ /\ v.step = "prevote" /\ QuorumReached(s, v)
                             /\ v.hash # Nil /\ s.proposal = v.hash
                     \/ /\ v.step = "prevote" /\ QuorumReached(s, v)
                        /\ v.hash # Nil /\ s.proposal = v.hash
                        /\ t.locked = {[round |-> s.round, block |-> b] : b \in v.hash}
                        /\ t.valid = t.locked
                        /\ t.walLocked = t.locked /\ t.walValid = t.locked
<1>1. CASE Conflicts(s, v)
  BY <1>1 DEF RecordVote, Changes, IsNode, Fields
<1>2. CASE ~Conflicts(s, v)
  <2> DEFINE t == [s EXCEPT !.votes = @ \cup {v}]
             u == ObservePolka(t, v.hash)
  <2>1. Changes(s, t, {"votes"}) /\ t.votes = s.votes \cup {v}
    BY DEF Changes, IsNode, Fields
  <2>2. QuorumReached(s, v) <=> HasQuorum(t, v.step, v.hash)
    BY <1>2 DEF QuorumReached
  <2>3. RecordVote(s, v) = IF v.step = "prevote" /\ HasQuorum(t, "prevote", v.hash)
                           THEN u ELSE t
    BY <1>2 DEF RecordVote
  <2> HIDE DEF t
  <2>4. /\ Changes(t, u, {"valid", "walValid", "locked", "walLocked"})
        /\ \/ /\ v.hash = Nil \/ t.proposal # v.hash
              /\ u = t
           \/ /\ v.hash # Nil /\ t.proposal = v.hash
              /\ u.locked = {[round |-> t.round, block |-> b] : b \in v.hash}
              /\ u.valid = u.locked
              /\ u.walLocked = u.locked /\ u.walValid = u.locked
    BY <2>1, ObservePolkaChanges DEF Changes
  <2> HIDE DEF u
  <2>5. /\ t.proposal = s.proposal /\ t.round = s.round
        /\ t.locked = s.locked /\ t.valid = s.valid
        /\ t.walLocked = s.walLocked /\ t.walValid = s.walValid
    BY <2>1 DEF Changes, Fields
  <2>6. CASE v.step = "prevote" /\ HasQuorum(t, "prevote", v.hash)
    <3>1. RecordVote(s, v) = u /\ QuorumReached(s, v)
      BY <2>2, <2>3, <2>6
    <3>2. Changes(s, u, {"votes", "valid", "walValid", "locked", "walLocked"})
      BY <2>1, <2>4 DEF Changes, Fields
    <3>3. u.votes = s.votes \cup {v}
      BY <2>1, <2>4 DEF Changes, Fields
    <3> QED
      BY <1>2, <2>4, <2>5, <2>6, <3>1, <3>2, <3>3
  <2>7. CASE ~(v.step = "prevote" /\ HasQuorum(t, "prevote", v.hash))
    <3>1. RecordVote(s, v) = t /\ ~(v.step = "prevote" /\ QuorumReached(s, v))
      BY <2>2, <2>3, <2>7
    <3>2. Changes(s, t, {"votes", "valid", "walValid", "locked", "walLocked"})
      BY <2>1 DEF Changes, Fields
    <3> QED
      BY <1>2, <2>1, <2>5, <3>1, <3>2
  <2> QED
    BY <2>6, <2>7
<1> QED
  BY <1>1, <1>2

-----------------------------------------------------------------------------
(* Types, and the slashing protection of proposals.                        *)

BlockType(b) == b.height \in Nat /\ b.round \in Nat

NodeType(s) ==
    /\ IsNode(s)
    /\ s.height \in Nat /\ s.round \in Nat
    /\ s.snap.height \in Nat /\ s.snap.round \in Nat
    /\ s.walCommit \in Nat /\ s.protection \in Nat
    /\ \A b \in s.proposal \cup s.proposals : BlockType(b)
    /\ \A f \in s.commits : BlockType(f.block)

LEMMA RecordVoteType ==
    ASSUME NEW s, NodeType(s), NEW v
    PROVE  LET t == RecordVote(s, v)
           IN  NodeType(t) /\ t.proposals = s.proposals /\ t.protection = s.protection
<1>1. Changes(s, RecordVote(s, v), {"evidence", "votes", "valid", "walValid",
                                    "locked", "walLocked"})
  <2>1. IsNode(s)
    BY DEF NodeType
  <2> QED
    BY <2>1, RecordVoteChanges DEF Changes
<1> QED
  BY <1>1 DEF NodeType, Changes, Fields

LEMMA SignBallotType ==
    ASSUME NEW s, NodeType(s), NEW v
    PROVE  LET t == SignBallot(s, v)
           IN  NodeType(t) /\ t.proposals = s.proposals /\ t.protection = s.protection
<1>1. Changes(s, SignBallot(s, v), {"prevoted", "precommitted", "ballots"})
  <2>1. IsNode(s)
    BY DEF NodeType
  <2> QED
    BY <2>1, SignBallotChanges
<1> QED
  BY <1>1 DEF NodeType, Changes, Fields

LEMMA FinalizeType ==
    ASSUME NEW s, NodeType(s), NEW hash, hash # Nil
    PROVE  LET t == Finalize(s, hash)
           IN  NodeType(t) /\ t.proposals = s.proposals /\ t.protection = s.protection
<1> DEFINE t == Finalize(s, hash)
<1>1. IsNode(s)
  BY DEF NodeType
<1>2. CASE t = s
  BY <1>2
<1>3. CASE t # s
  <2>1. FinalizedTo(s, t, hash)
    BY <1>1, <1>3, FinalizeChanges
  <2> HIDE DEF t
  <2>2. t.proposals = s.proposals /\ t.protection = s.protection /\ IsNode(t)
    BY <2>1 DEF FinalizedTo, Changes, Fields
  <2>3. \A f \in t.commits : BlockType(f.block)
    BY <2>1 DEF FinalizedTo, NodeType
  <2>4. \A b \in t.proposal \cup t.proposals : BlockType(b)
    BY <2>1, <2>2 DEF FinalizedTo, NodeType
  <2>5. /\ t.height \in Nat /\ t.round \in Nat /\ t.snap.height \in Nat
        /\ t.snap.round \in Nat /\ t.walCommit \in Nat
    BY <2>1 DEF FinalizedTo, NodeType
  <2> QED
    BY <2>2, <2>3, <2>4, <2>5 DEF NodeType, t
<1> QED
  BY <1>2, <1>3

LEMMA HandleVoteActionsType ==
    ASSUME NEW n, NEW s, NodeType(s), NEW v
    PROVE  LET t == HandleVoteActions(n, s, v)
           IN  NodeType(t) /\ t.proposals = s.proposals /\ t.protection = s.protection
<1> DEFINE recorded  == RecordVote(s, v)
           precommit == Ballot(n, recorded, "precommit", v.hash)
           signed    == SignBallot(recorded, precommit)
           counted   == RecordVote(signed, precommit)
<1>1. /\ NodeType(recorded)
      /\ recorded.proposals = s.proposals /\ recorded.protection = s.protection
  BY RecordVoteType
<1>2. /\ NodeType(signed)
      /\ signed.proposals = s.proposals /\ signed.protection = s.protection
  BY <1>1, SignBallotType
<1>3. /\ NodeType(counted)
      /\ counted.proposals = s.proposals /\ counted.protection = s.protection
  BY <1>2, RecordVoteType
<1>4. \E w \in {recorded, counted} :
         \/ HandleVoteActions(n, s, v) = w
         \/ v.hash # Nil /\ HandleVoteActions(n, s, v) = Finalize(w, v.hash)
  BY DEF HandleVoteActions
<1> HIDE DEF recorded, counted
<1> QED
  BY <1>1, <1>3, <1>4, FinalizeType

LEMMA EmitPrevoteType ==
    ASSUME NEW n, NEW s, NodeType(s)
    PROVE  LET t == EmitPrevote(n, s)
           IN  NodeType(t) /\ t.proposals = s.proposals /\ t.protection = s.protection
<1> DEFINE v == Ballot(n, s, "prevote", PrevoteHash(s))
           signed == SignBallot(s, v)
<1>1. NodeType(signed) /\ signed.proposals = s.proposals /\ signed.protection = s.protection
  BY SignBallotType
<1>2. EmitPrevote(n, s) \in {s, HandleVoteActions(n, signed, v)}
  BY DEF EmitPrevote
<1> HIDE DEF signed, v
<1> QED
  BY <1>1, <1>2, HandleVoteActionsType

LEMMA AdvanceRoundType ==
    ASSUME NEW s, NodeType(s)
    PROVE  LET t == AdvanceRound(s)
           IN  NodeType(t) /\ t.proposals = s.proposals /\ t.protection = s.protection
<1> DEFINE t == AdvanceRound(s)
<1>1. IsNode(s)
  BY DEF NodeType
<1>2. /\ Changes(s, t, {"proposal", "votes", "prevoted", "precommitted", "round", "snap"})
      /\ t.round = s.round + 1 /\ t.proposal = {}
      /\ t.snap = [height |-> s.height, round |-> s.round + 1]
  BY <1>1, AdvanceRoundChanges
<1> HIDE DEF t
<1>3. /\ t.proposals = s.proposals /\ t.protection = s.protection
      /\ t.commits = s.commits /\ t.walCommit = s.walCommit
      /\ t.height = s.height /\ IsNode(t)
  BY <1>2 DEF Changes, Fields
<1>4. NodeType(t)
  BY <1>2, <1>3 DEF NodeType
<1> QED
  BY <1>3, <1>4 DEF t

\* At most one proposal per height, and the protection covers all of them.
Protected(s) ==
    /\ \A b \in s.proposals : b.height <= s.protection
    /\ \A b, c \in s.proposals : b.height = c.height => b = c

LEMMA MaybeProposeProtected ==
    ASSUME NEW n, NEW s, NodeType(s), Protected(s), NEW outcome
    PROVE  NodeType(MaybePropose(n, s, outcome)) /\ Protected(MaybePropose(n, s, outcome))
<1> DEFINE t == MaybePropose(n, s, outcome)
           spent == [s EXCEPT !.protection = s.height]
           down == [spent EXCEPT !.up = FALSE]
           b == NewBlock(n, s, outcome)
           offered == [spent EXCEPT !.proposal = {b}, !.proposals = @ \cup {b}]
<1>1. CASE ~MayPropose(n, s)
  BY <1>1 DEF MaybePropose
<1>2. CASE MayPropose(n, s)
  <2>1. t \in {spent, down, EmitPrevote(n, offered)}
    BY <1>2 DEF MaybePropose
  <2>2. s.height > s.protection
    BY <1>2 DEF MayPropose
  <2>3. Changes(s, spent, {"protection"}) /\ spent.protection = s.height
    BY DEF NodeType, IsNode, Changes, Fields
  <2>4. b.height = s.height /\ b.round = s.round
    BY DEF NewBlock
  <2> HIDE DEF spent, b
  <2>5. Changes(spent, down, {"up"})
    BY <2>3 DEF IsNode, Changes, Fields
  <2>6. /\ Changes(spent, offered, {"proposal", "proposals"})
        /\ offered.proposal = {b} /\ offered.proposals = spent.proposals \cup {b}
    BY <2>3 DEF IsNode, Changes, Fields
  <2> HIDE DEF down, offered
  <2>7. NodeType(spent) /\ Protected(spent)
    <3>1. NodeType(spent)
      BY <2>3 DEF NodeType, Changes, Fields
    <3>2. spent.proposals = s.proposals
      BY <2>3 DEF Changes, Fields
    <3> QED
      BY <2>2, <2>3, <3>1, <3>2 DEF Protected, NodeType, BlockType
  <2>8. NodeType(down) /\ Protected(down)
    <3>1. down.proposals = spent.proposals /\ down.protection = spent.protection
      BY <2>5 DEF Changes, Fields
    <3>2. NodeType(down)
      BY <2>5, <2>7 DEF NodeType, Changes, Fields
    <3> QED
      BY <2>7, <3>1, <3>2 DEF Protected
  <2>9. NodeType(offered) /\ Protected(offered)
    <3>1. /\ offered.proposals = s.proposals \cup {b}
          /\ offered.protection = s.height
      BY <2>3, <2>6 DEF Changes, Fields
    <3>2. BlockType(b)
      BY <2>4 DEF NodeType, BlockType
    <3>3. NodeType(offered)
      BY <2>6, <2>7, <3>2 DEF NodeType, Changes, Fields
    <3>4. \A c \in s.proposals : c.height < s.height /\ c.height \in Nat
      BY <2>2 DEF Protected, NodeType, BlockType
    <3> QED
      BY <2>4, <3>1, <3>3, <3>4 DEF Protected, NodeType
  <2>10. NodeType(EmitPrevote(n, offered)) /\ Protected(EmitPrevote(n, offered))
    BY <2>9, EmitPrevoteType DEF Protected
  <2> QED
    BY <2>1, <2>7, <2>8, <2>10
<1> QED
  BY <1>1, <1>2

LEMMA RecoveredType ==
    ASSUME NEW s, NodeType(s)
    PROVE  LET t == PersistSnapshot(Recovered(s))
           IN  NodeType(t) /\ t.proposals = s.proposals /\ t.protection = s.protection
<1> DEFINE rec == RecoverSnapshot(s)
           r == ResetRound(s)
           a == [r EXCEPT !.up = TRUE, !.evidence = {},
                          !.height = rec.height, !.round = rec.round,
                          !.locked = rec.locked, !.valid = rec.valid]
           t == PersistSnapshot(a)
<1>1. rec.height \in Nat /\ rec.round \in Nat
  BY DEF RecoverSnapshot, NodeType
<1>2. IsNode(s)
  BY DEF NodeType
<1>3. /\ Changes(s, r, {"proposal", "votes", "prevoted", "precommitted"})
      /\ r.proposal = {}
  BY <1>2, ResetRoundChanges
<1>4. t = PersistSnapshot(Recovered(s))
  BY DEF Recovered
<1> HIDE DEF rec, r
<1>5. /\ Changes(r, a, {"up", "evidence", "height", "round", "locked", "valid"})
      /\ a.height = rec.height /\ a.round = rec.round
  BY <1>3 DEF Changes, IsNode, Fields
<1> HIDE DEF a
<1>6. /\ Changes(a, t, {"snap"})
      /\ t.snap = [height |-> a.height, round |-> a.round]
  BY <1>5, PersistSnapshotChanges DEF Changes
<1> HIDE DEF t
<1>7. /\ t.proposal = {} /\ t.proposals = s.proposals /\ t.protection = s.protection
      /\ t.commits = s.commits /\ t.walCommit = s.walCommit
      /\ t.height = rec.height /\ t.round = rec.round /\ IsNode(t)
  BY <1>3, <1>5, <1>6 DEF Changes, Fields
<1> QED
  BY <1>1, <1>4, <1>5, <1>6, <1>7 DEF NodeType

LEMMA ImportFinalizedBlockType ==
    ASSUME NEW s, NodeType(s), NEW f, BlockType(f.block)
    PROVE  LET t == ImportFinalizedBlock(s, f)
           IN  NodeType(t) /\ t.proposals = s.proposals /\ t.protection = s.protection
<1> DEFINE w == WalCommitFinalized(s, f.block.height)
           c == CommitBlock(w, f)
           next == f.block.height + 1
           t == AdvanceHeight(c, next)
<1>1. ImportFinalizedBlock(s, f) \in {w, t}
  BY DEF ImportFinalizedBlock
<1>2. IsNode(s)
  BY DEF NodeType
<1>3. Changes(s, w, {"walCommit"}) /\ w.walCommit \in {f.block.height, s.walCommit}
  BY <1>2, WalCommitFinalizedChanges
<1> HIDE DEF w
<1>4. NodeType(w) /\ w.proposals = s.proposals /\ w.protection = s.protection
  BY <1>3 DEF NodeType, BlockType, Changes, Fields
<1>5. Changes(w, c, {"blocks", "latest"})
  BY <1>3, CommitBlockChanges DEF Changes
<1> HIDE DEF c
<1>6. AtHeight(c, t, next)
  <2>1. IsNode(c)
    BY <1>5 DEF Changes
  <2> HIDE DEF next
  <2> QED
    BY <2>1, AdvanceHeightChanges
<1> HIDE DEF t
<1>7. /\ t.proposals = w.proposals /\ t.protection = w.protection
      /\ t.commits = w.commits /\ t.walCommit = w.walCommit /\ IsNode(t)
  BY <1>5, <1>6 DEF AtHeight, Changes, Fields
<1>8. NodeType(t)
  BY <1>4, <1>6, <1>7 DEF AtHeight, NodeType, BlockType
<1> QED
  BY <1>1, <1>4, <1>7, <1>8

-----------------------------------------------------------------------------
(* A validator proposes once per height.                                   *)

ProposalInv ==
    /\ DOMAIN node = Nodes
    /\ \A n \in Nodes : NodeType(node[n]) /\ Protected(node[n])

\* One node moves, and stays within the invariant.
LEMMA ProposalInvStep ==
    ASSUME ProposalInv, NEW n \in Nodes, NEW s, NodeType(s), Protected(s),
           node' = [node EXCEPT ![n] = s]
    PROVE  ProposalInv'
<1>1. DOMAIN node' = Nodes
  BY DEF ProposalInv
<1>2. ASSUME NEW m \in Nodes
      PROVE  NodeType(node'[m]) /\ Protected(node'[m])
  <2>1. node'[m] = s \/ node'[m] = node[m]
    BY DEF ProposalInv
  <2> QED
    BY <2>1 DEF ProposalInv
<1> QED
  BY <1>1, <1>2 DEF ProposalInv, NodeType, IsNode, Protected, BlockType

LEMMA ProposalInvInit == Init => ProposalInv
<1> SUFFICES ASSUME Init PROVE ProposalInv
  OBVIOUS
<1>1. NodeType(BlankNode) /\ Protected(BlankNode)
  BY DEF BlankNode, NodeType, IsNode, Fields, Protected
<1> QED
  BY <1>1 DEF Init, ProposalInv

LEMMA BootProtected ==
    ASSUME ProposalInv, NEW n \in Nodes, NEW outcome, Boot(n, outcome)
    PROVE  ProposalInv'
<1> DEFINE t == PersistSnapshot(Recovered(node[n]))
           u == MaybePropose(n, t, outcome)
<1>1. NodeType(node[n]) /\ Protected(node[n])
  BY DEF ProposalInv
<1>2. NodeType(t) /\ t.proposals = node[n].proposals /\ t.protection = node[n].protection
  BY <1>1, RecoveredType
<1>3. Protected(t)
  BY <1>1, <1>2 DEF Protected
<1>4. node' = [node EXCEPT ![n] = u]
  BY DEF Boot
<1> HIDE DEF t
<1>5. NodeType(u) /\ Protected(u)
  BY <1>2, <1>3, MaybeProposeProtected
<1> HIDE DEF u
<1> QED
  BY <1>4, <1>5, ProposalInvStep

LEMMA ProposalInvNext == ProposalInv /\ [Next]_vars => ProposalInv'
<1> SUFFICES ASSUME ProposalInv, [Next]_vars PROVE ProposalInv'
  OBVIOUS
<1>1. CASE UNCHANGED vars
  BY <1>1 DEF vars, ProposalInv, NodeType, IsNode, Protected, BlockType
<1>2. ASSUME NEW n \in Nodes, Start(n) \/ Restart(n)
      PROVE  ProposalInv'
  BY <1>2, BootProtected DEF Start, Restart
<1>3. ASSUME NEW n \in Nodes, OnProposal(n)
      PROVE  ProposalInv'
  <2>0. PICK m \in Nodes : \E b \in node[m].proposals :
           node' = [node EXCEPT ![n] = ReceiveProposal(n, node[n], b)]
    BY <1>3 DEF OnProposal, Peers
  <2>1. PICK b \in node[m].proposals :
           node' = [node EXCEPT ![n] = ReceiveProposal(n, node[n], b)]
    BY <2>0
  <2>2. NodeType(node[n]) /\ Protected(node[n]) /\ BlockType(b)
    BY DEF ProposalInv, NodeType
  <2> DEFINE s == node[n]
             held == [s EXCEPT !.proposal = {b}]
             accused == [s EXCEPT !.evidence = @ \cup {[validator |-> b.proposer,
                                         height |-> b.height, round |-> b.round]}]
             t == ReceiveProposal(n, s, b)
  <2>3. t \in {s, accused, EmitPrevote(n, held)}
    BY DEF ReceiveProposal
  <2> HIDE DEF s
  <2>4. Changes(s, held, {"proposal"}) /\ held.proposal = {b}
    BY <2>2 DEF s, NodeType, IsNode, Changes, Fields
  <2>5. Changes(s, accused, {"evidence"})
    BY <2>2 DEF s, NodeType, IsNode, Changes, Fields
  <2> HIDE DEF held, accused
  <2>6. NodeType(s) /\ Protected(s)
    BY <2>2 DEF s
  <2>7. NodeType(accused) /\ Protected(accused)
    <3>1. accused.proposals = s.proposals /\ accused.protection = s.protection
      BY <2>5 DEF Changes, Fields
    <3>2. NodeType(accused)
      BY <2>5, <2>6 DEF NodeType, Changes, Fields
    <3> QED
      BY <2>6, <3>1, <3>2 DEF Protected
  <2>8. NodeType(EmitPrevote(n, held)) /\ Protected(EmitPrevote(n, held))
    <3>1. held.proposals = s.proposals /\ held.protection = s.protection
      BY <2>4 DEF Changes, Fields
    <3>2. NodeType(held)
      BY <2>2, <2>4, <2>6 DEF NodeType, Changes, Fields
    <3> QED
      BY <2>6, <3>1, <3>2, EmitPrevoteType DEF Protected
  <2>9. NodeType(t) /\ Protected(t)
    BY <2>3, <2>6, <2>7, <2>8
  <2>10. node' = [node EXCEPT ![n] = t]
    BY <2>1 DEF s
  <2> HIDE DEF t
  <2> QED
    BY <2>9, <2>10, ProposalInvStep
<1>4. ASSUME NEW n \in Nodes, OnVote(n)
      PROVE  ProposalInv'
  <2>1. PICK v : node' = [node EXCEPT ![n] = HandleVoteActions(n, node[n], v)]
    BY <1>4 DEF OnVote
  <2> DEFINE t == HandleVoteActions(n, node[n], v)
  <2>2. NodeType(node[n]) /\ Protected(node[n])
    BY DEF ProposalInv
  <2>3. NodeType(t) /\ Protected(t)
    BY <2>2, HandleVoteActionsType DEF Protected
  <2> QED
    BY <2>1, <2>3, ProposalInvStep
<1>5. ASSUME NEW n \in Nodes, OnCommit(n)
      PROVE  ProposalInv'
  <2>0. PICK m \in Nodes : \E f \in node[m].commits :
           node' = [node EXCEPT ![n] = ImportFinalizedBlock(node[n], f)]
    BY <1>5 DEF OnCommit, Peers
  <2>1. PICK f \in node[m].commits :
           node' = [node EXCEPT ![n] = ImportFinalizedBlock(node[n], f)]
    BY <2>0
  <2> DEFINE t == ImportFinalizedBlock(node[n], f)
  <2>2. NodeType(node[n]) /\ Protected(node[n]) /\ BlockType(f.block)
    BY DEF ProposalInv, NodeType
  <2>3. NodeType(t) /\ Protected(t)
    BY <2>2, ImportFinalizedBlockType DEF Protected
  <2> QED
    BY <2>1, <2>3, ProposalInvStep
<1>6. ASSUME NEW n \in Nodes, Timeout(n)
      PROVE  ProposalInv'
  <2> DEFINE p == EmitPrevote(n, node[n])
             a == AdvanceRound(p)
  <2>1. PICK outcome : node' = [node EXCEPT ![n] = MaybePropose(n, a, outcome)]
    BY <1>6 DEF Timeout
  <2> DEFINE t == MaybePropose(n, a, outcome)
  <2>2. NodeType(node[n]) /\ Protected(node[n])
    BY DEF ProposalInv
  <2>3. NodeType(p) /\ Protected(p)
    BY <2>2, EmitPrevoteType DEF Protected
  <2> HIDE DEF p
  <2>4. NodeType(a) /\ Protected(a)
    BY <2>3, AdvanceRoundType DEF Protected
  <2> HIDE DEF a
  <2>5. NodeType(t) /\ Protected(t)
    BY <2>4, MaybeProposeProtected
  <2> QED
    BY <2>1, <2>5, ProposalInvStep
<1> QED
  BY <1>1, <1>2, <1>3, <1>4, <1>5, <1>6 DEF Next

(* The slashing protection of maybe_propose works: through any number of   *)
(* rounds and restarts no validator signs two proposals for one height.    *)
THEOREM ProposeOnceTheorem == Spec => []ProposeOnce
<1>1. ProposalInv => ProposeOnce
  BY DEF ProposalInv, Protected, ProposeOnce
<1> QED
  BY <1>1, ProposalInvInit, ProposalInvNext, PTL DEF Spec

-----------------------------------------------------------------------------
(* Nodes only move forward, restarts included.                             *)

\* The stored snapshot is the height and round the node works on.
SnapCurrent(s) == s.snap = [height |-> s.height, round |-> s.round]

Later(s, t) ==
    t.height > s.height \/ (t.height = s.height /\ t.round >= s.round)

Advances(s, t) == NodeType(t) /\ SnapCurrent(t) /\ Later(s, t)

LEMMA AdvancesTransitive ==
    ASSUME NEW s, NEW t, NEW u, NodeType(s), Advances(s, t), Advances(t, u)
    PROVE  Advances(s, u)
BY DEF Advances, Later, NodeType

\* An operation that touches neither height nor round nor snapshot.
LEMMA KeepingAdvances ==
    ASSUME NEW s, NEW t, NodeType(s), SnapCurrent(s), NodeType(t),
           t.height = s.height, t.round = s.round, t.snap = s.snap
    PROVE  Advances(s, t)
BY DEF Advances, Later, SnapCurrent, NodeType

LEMMA RecordVoteAdvances ==
    ASSUME NEW s, NodeType(s), SnapCurrent(s), NEW v
    PROVE  Advances(s, RecordVote(s, v))
<1> DEFINE t == RecordVote(s, v)
<1>1. Changes(s, t, {"evidence", "votes", "valid", "walValid", "locked", "walLocked"})
  BY RecordVoteChanges DEF NodeType, Changes
<1>2. NodeType(t)
  BY RecordVoteType
<1> HIDE DEF t
<1>3. t.height = s.height /\ t.round = s.round /\ t.snap = s.snap
  BY <1>1 DEF Changes, Fields
<1>4. Advances(s, t)
  BY <1>2, <1>3, KeepingAdvances
<1> QED
  BY <1>4 DEF t

LEMMA SignBallotAdvances ==
    ASSUME NEW s, NodeType(s), SnapCurrent(s), NEW v
    PROVE  Advances(s, SignBallot(s, v))
<1> DEFINE t == SignBallot(s, v)
<1>1. Changes(s, t, {"prevoted", "precommitted", "ballots"})
  BY SignBallotChanges DEF NodeType
<1>2. NodeType(t)
  BY SignBallotType
<1> HIDE DEF t
<1>3. t.height = s.height /\ t.round = s.round /\ t.snap = s.snap
  BY <1>1 DEF Changes, Fields
<1>4. Advances(s, t)
  BY <1>2, <1>3, KeepingAdvances
<1> QED
  BY <1>4 DEF t

LEMMA FinalizeAdvances ==
    ASSUME NEW s, NodeType(s), SnapCurrent(s), NEW hash, hash # Nil
    PROVE  Advances(s, Finalize(s, hash))
<1> DEFINE t == Finalize(s, hash)
<1>1. t = s \/ FinalizedTo(s, t, hash)
  BY FinalizeChanges DEF NodeType
<1>2. NodeType(t)
  BY FinalizeType
<1> HIDE DEF t
<1>3. ASSUME t = s PROVE Advances(s, t)
  BY <1>2, <1>3, KeepingAdvances
<1>4. ASSUME FinalizedTo(s, t, hash) PROVE Advances(s, t)
  <2>1. t.height = s.height + 1 /\ t.round = 0 /\ t.snap = [height |-> s.height + 1, round |-> 0]
    BY <1>4 DEF FinalizedTo
  <2> QED
    BY <1>2, <2>1 DEF Advances, Later, SnapCurrent, NodeType
<1>5. Advances(s, t)
  BY <1>1, <1>3, <1>4
<1> QED
  BY <1>5 DEF t

LEMMA HandleVoteActionsAdvances ==
    ASSUME NEW n, NEW s, NodeType(s), SnapCurrent(s), NEW v
    PROVE  Advances(s, HandleVoteActions(n, s, v))
<1> DEFINE recorded  == RecordVote(s, v)
           precommit == Ballot(n, recorded, "precommit", v.hash)
           signed    == SignBallot(recorded, precommit)
           counted   == RecordVote(signed, precommit)
<1>1. \E w \in {recorded, counted} :
         \/ HandleVoteActions(n, s, v) = w
         \/ v.hash # Nil /\ HandleVoteActions(n, s, v) = Finalize(w, v.hash)
  BY DEF HandleVoteActions
<1>2. Advances(s, recorded)
  BY RecordVoteAdvances
<1> HIDE DEF recorded, precommit
<1>3. Advances(recorded, signed)
  BY <1>2, SignBallotAdvances DEF Advances
<1> HIDE DEF signed
<1>4. Advances(signed, counted)
  BY <1>3, RecordVoteAdvances DEF Advances
<1> HIDE DEF counted
<1>5. Advances(s, counted)
  <2>1. Advances(s, signed)
    BY <1>2, <1>3, AdvancesTransitive
  <2> QED
    BY <2>1, <1>4, AdvancesTransitive
<1>6. PICK w \in {recorded, counted} :
         \/ HandleVoteActions(n, s, v) = w
         \/ v.hash # Nil /\ HandleVoteActions(n, s, v) = Finalize(w, v.hash)
  BY <1>1
<1>7. Advances(s, w) /\ NodeType(w) /\ SnapCurrent(w)
  BY <1>2, <1>5 DEF Advances
<1>8. v.hash # Nil => Advances(s, Finalize(w, v.hash))
  BY <1>7, FinalizeAdvances, AdvancesTransitive
<1> QED
  BY <1>6, <1>7, <1>8

LEMMA EmitPrevoteAdvances ==
    ASSUME NEW n, NEW s, NodeType(s), SnapCurrent(s)
    PROVE  Advances(s, EmitPrevote(n, s))
<1> DEFINE v == Ballot(n, s, "prevote", PrevoteHash(s))
           signed == SignBallot(s, v)
<1>1. EmitPrevote(n, s) \in {s, HandleVoteActions(n, signed, v)}
  BY DEF EmitPrevote
<1>2. Advances(s, signed)
  BY SignBallotAdvances
<1> HIDE DEF signed, v
<1>3. Advances(s, HandleVoteActions(n, signed, v))
  <2>1. Advances(signed, HandleVoteActions(n, signed, v))
    BY <1>2, HandleVoteActionsAdvances DEF Advances
  <2> QED
    BY <1>2, <2>1, AdvancesTransitive
<1>4. Advances(s, s)
  BY KeepingAdvances
<1> QED
  BY <1>1, <1>3, <1>4

LEMMA AdvanceRoundAdvances ==
    ASSUME NEW s, NodeType(s)
    PROVE  Advances(s, AdvanceRound(s))
<1> DEFINE t == AdvanceRound(s)
<1>1. /\ Changes(s, t, {"proposal", "votes", "prevoted", "precommitted", "round", "snap"})
      /\ t.round = s.round + 1
      /\ t.snap = [height |-> s.height, round |-> s.round + 1]
  BY AdvanceRoundChanges DEF NodeType
<1>2. NodeType(t)
  BY AdvanceRoundType
<1> HIDE DEF t
<1>3. t.height = s.height
  BY <1>1 DEF Changes, Fields
<1>4. Advances(s, t)
  BY <1>1, <1>2, <1>3 DEF Advances, Later, SnapCurrent, NodeType
<1> QED
  BY <1>4 DEF t

LEMMA MaybeProposeAdvances ==
    ASSUME NEW n, NEW s, NodeType(s), SnapCurrent(s), NEW outcome
    PROVE  Advances(s, MaybePropose(n, s, outcome))
<1> DEFINE spent == [s EXCEPT !.protection = s.height]
           down == [spent EXCEPT !.up = FALSE]
           b == NewBlock(n, s, outcome)
           offered == [spent EXCEPT !.proposal = {b}, !.proposals = @ \cup {b}]
<1>1. MaybePropose(n, s, outcome) \in {s, spent, down, EmitPrevote(n, offered)}
  BY DEF MaybePropose
<1>2. Changes(s, spent, {"protection"}) /\ spent.protection = s.height
  BY DEF NodeType, IsNode, Changes, Fields
<1>3. BlockType(b)
  BY DEF NewBlock, BlockType, NodeType
<1> HIDE DEF spent, b
<1>4. Changes(spent, down, {"up"})
  BY <1>2 DEF IsNode, Changes, Fields
<1>5. /\ Changes(spent, offered, {"proposal", "proposals"})
      /\ offered.proposal = {b} /\ offered.proposals = spent.proposals \cup {b}
  BY <1>2 DEF IsNode, Changes, Fields
<1> HIDE DEF down, offered
<1>6. NodeType(spent) /\ spent.height = s.height /\ spent.round = s.round /\ spent.snap = s.snap
  BY <1>2 DEF NodeType, Changes, Fields
<1>7. NodeType(down) /\ down.height = s.height /\ down.round = s.round /\ down.snap = s.snap
  BY <1>4, <1>6 DEF NodeType, Changes, Fields
<1>8. /\ NodeType(offered)
      /\ offered.height = s.height /\ offered.round = s.round /\ offered.snap = s.snap
  BY <1>3, <1>5, <1>6 DEF NodeType, Changes, Fields
<1>9. Advances(s, s) /\ Advances(s, spent) /\ Advances(s, down) /\ Advances(s, offered)
  BY <1>6, <1>7, <1>8, KeepingAdvances
<1>10. Advances(s, EmitPrevote(n, offered))
  <2>1. Advances(offered, EmitPrevote(n, offered))
    BY <1>9, EmitPrevoteAdvances DEF Advances
  <2> QED
    BY <1>9, <2>1, AdvancesTransitive
<1> QED
  BY <1>1, <1>9, <1>10

\* What recovery makes of a current snapshot is not behind it.
LEMMA RecoveredAdvances ==
    ASSUME NEW s, NodeType(s), SnapCurrent(s)
    PROVE  Advances(s, PersistSnapshot(Recovered(s)))
<1> DEFINE rec == RecoverSnapshot(s)
           r == ResetRound(s)
           a == [r EXCEPT !.up = TRUE, !.evidence = {},
                          !.height = rec.height, !.round = rec.round,
                          !.locked = rec.locked, !.valid = rec.valid]
           t == PersistSnapshot(a)
<1>1. rec.height > s.height \/ (rec.height = s.height /\ rec.round = s.round)
  BY DEF RecoverSnapshot, NodeType, SnapCurrent
<1>2. Changes(s, r, {"proposal", "votes", "prevoted", "precommitted"})
  BY ResetRoundChanges DEF NodeType
<1>3. t = PersistSnapshot(Recovered(s))
  BY DEF Recovered
<1>4. NodeType(t)
  BY <1>3, RecoveredType
<1> HIDE DEF rec, r
<1>5. /\ Changes(r, a, {"up", "evidence", "height", "round", "locked", "valid"})
      /\ a.height = rec.height /\ a.round = rec.round
  BY <1>2 DEF Changes, IsNode, Fields
<1> HIDE DEF a
<1>6. Changes(a, t, {"snap"}) /\ t.snap = [height |-> a.height, round |-> a.round]
  BY <1>5, PersistSnapshotChanges DEF Changes
<1> HIDE DEF t
<1>7. t.height = rec.height /\ t.round = rec.round
  BY <1>5, <1>6 DEF Changes, Fields
<1>8. Advances(s, t)
  BY <1>1, <1>4, <1>5, <1>6, <1>7 DEF Advances, Later, SnapCurrent, NodeType
<1> QED
  BY <1>3, <1>8

LEMMA ImportFinalizedBlockAdvances ==
    ASSUME NEW s, NodeType(s), SnapCurrent(s),
           NEW f, BlockType(f.block), f.block.height >= s.height
    PROVE  Advances(s, ImportFinalizedBlock(s, f))
<1> DEFINE w == WalCommitFinalized(s, f.block.height)
           c == CommitBlock(w, f)
           next == f.block.height + 1
           t == AdvanceHeight(c, next)
<1>1. ImportFinalizedBlock(s, f) \in {w, t}
  BY DEF ImportFinalizedBlock
<1>2. Changes(s, w, {"walCommit"}) /\ w.walCommit \in {f.block.height, s.walCommit}
  BY WalCommitFinalizedChanges DEF NodeType
<1> HIDE DEF w
<1>3. NodeType(w) /\ w.height = s.height /\ w.round = s.round /\ w.snap = s.snap
  BY <1>2 DEF NodeType, BlockType, Changes, Fields
<1>4. Advances(s, w)
  BY <1>3, KeepingAdvances
<1>5. Changes(w, c, {"blocks", "latest"})
  BY <1>2, CommitBlockChanges DEF Changes
<1> HIDE DEF c
<1>6. AtHeight(c, t, next)
  <2>1. IsNode(c)
    BY <1>5 DEF Changes
  <2> HIDE DEF next
  <2> QED
    BY <2>1, AdvanceHeightChanges
<1> HIDE DEF t
<1>7. /\ t.proposals = w.proposals /\ t.protection = w.protection
      /\ t.commits = w.commits /\ t.walCommit = w.walCommit /\ IsNode(t)
  BY <1>5, <1>6 DEF AtHeight, Changes, Fields
<1>8. NodeType(t)
  BY <1>3, <1>6, <1>7 DEF AtHeight, NodeType, BlockType
<1>9. Advances(s, t)
  BY <1>6, <1>8 DEF Advances, Later, SnapCurrent, AtHeight, NodeType, BlockType
<1> QED
  BY <1>1, <1>4, <1>9

SnapInv == ProposalInv /\ \A n \in Nodes : SnapCurrent(node[n])

\* Every step moves one node, forward.
OneAdvances ==
    \E n \in Nodes : \E s : node' = [node EXCEPT ![n] = s] /\ Advances(node[n], s)

LEMMA NextAdvances ==
    ASSUME SnapInv, Next
    PROVE  OneAdvances
<1>1. ASSUME NEW n \in Nodes, NEW s,
             node' = [node EXCEPT ![n] = s], Advances(node[n], s)
      PROVE  OneAdvances
  BY <1>1 DEF OneAdvances
<1>2. ASSUME NEW n \in Nodes
      PROVE  NodeType(node[n]) /\ SnapCurrent(node[n])
  BY DEF SnapInv, ProposalInv
<1>3. ASSUME NEW n \in Nodes, NEW outcome, Boot(n, outcome)
      PROVE  OneAdvances
  <2> DEFINE r == PersistSnapshot(Recovered(node[n]))
             t == MaybePropose(n, r, outcome)
  <2>1. node' = [node EXCEPT ![n] = t]
    BY <1>3 DEF Boot
  <2>2. Advances(node[n], r)
    BY <1>2, RecoveredAdvances
  <2> HIDE DEF r
  <2>3. Advances(r, t)
    BY <2>2, MaybeProposeAdvances DEF Advances
  <2> HIDE DEF t
  <2>4. Advances(node[n], t)
    BY <1>2, <2>2, <2>3, AdvancesTransitive
  <2> QED
    BY <1>1, <2>1, <2>4
<1>4. ASSUME NEW n \in Nodes, Start(n) \/ Restart(n)
      PROVE  OneAdvances
  BY <1>3, <1>4 DEF Start, Restart
<1>5. ASSUME NEW n \in Nodes, OnProposal(n)
      PROVE  OneAdvances
  <2>0. PICK m \in Nodes : \E b \in node[m].proposals :
           node' = [node EXCEPT ![n] = ReceiveProposal(n, node[n], b)]
    BY <1>5 DEF OnProposal, Peers
  <2>1. PICK b \in node[m].proposals :
           node' = [node EXCEPT ![n] = ReceiveProposal(n, node[n], b)]
    BY <2>0
  <2>2. NodeType(node[n]) /\ SnapCurrent(node[n]) /\ BlockType(b)
    BY <1>2 DEF NodeType
  <2> DEFINE s == node[n]
             held == [s EXCEPT !.proposal = {b}]
             accused == [s EXCEPT !.evidence = @ \cup {[validator |-> b.proposer,
                                         height |-> b.height, round |-> b.round]}]
             t == ReceiveProposal(n, s, b)
  <2>3. t \in {s, accused, EmitPrevote(n, held)}
    BY DEF ReceiveProposal
  <2>4. node' = [node EXCEPT ![n] = t]
    BY <2>1
  <2>5. Changes(s, held, {"proposal"}) /\ held.proposal = {b}
    BY <2>2 DEF NodeType, IsNode, Changes, Fields
  <2>6. Changes(s, accused, {"evidence"})
    BY <2>2 DEF NodeType, IsNode, Changes, Fields
  <2>7. NodeType(s) /\ SnapCurrent(s)
    BY <2>2
  <2>8. s = node[n]
    OBVIOUS
  <2> HIDE DEF s, held, accused, t
  <2>9. NodeType(held) /\ held.height = s.height /\ held.round = s.round /\ held.snap = s.snap
    BY <2>2, <2>5, <2>7 DEF NodeType, Changes, Fields
  <2>10. /\ NodeType(accused)
         /\ accused.height = s.height /\ accused.round = s.round /\ accused.snap = s.snap
    BY <2>6, <2>7 DEF NodeType, Changes, Fields
  <2>11. Advances(s, s) /\ Advances(s, held) /\ Advances(s, accused)
    BY <2>7, <2>9, <2>10, KeepingAdvances
  <2>12. Advances(s, EmitPrevote(n, held))
    <3>1. Advances(held, EmitPrevote(n, held))
      BY <2>11, EmitPrevoteAdvances DEF Advances
    <3> QED
      BY <2>7, <2>11, <3>1, AdvancesTransitive
  <2>13. Advances(node[n], t)
    BY <2>3, <2>8, <2>11, <2>12
  <2> QED
    BY <1>1, <2>4, <2>13
<1>6. ASSUME NEW n \in Nodes, OnVote(n)
      PROVE  OneAdvances
  <2>1. PICK v : node' = [node EXCEPT ![n] = HandleVoteActions(n, node[n], v)]
    BY <1>6 DEF OnVote
  <2>2. Advances(node[n], HandleVoteActions(n, node[n], v))
    BY <1>2, HandleVoteActionsAdvances
  <2> QED
    BY <1>1, <2>1, <2>2
<1>7. ASSUME NEW n \in Nodes, OnCommit(n)
      PROVE  OneAdvances
  <2>0. PICK m \in Nodes : \E f \in node[m].commits :
           /\ f.block.height >= node[n].height
           /\ node' = [node EXCEPT ![n] = ImportFinalizedBlock(node[n], f)]
    BY <1>7 DEF OnCommit, Peers
  <2>1. PICK f \in node[m].commits :
           /\ f.block.height >= node[n].height
           /\ node' = [node EXCEPT ![n] = ImportFinalizedBlock(node[n], f)]
    BY <2>0
  <2>2. BlockType(f.block)
    BY <1>2 DEF NodeType
  <2>3. Advances(node[n], ImportFinalizedBlock(node[n], f))
    BY <1>2, <2>1, <2>2, ImportFinalizedBlockAdvances
  <2> QED
    BY <1>1, <2>1, <2>3
<1>8. ASSUME NEW n \in Nodes, Timeout(n)
      PROVE  OneAdvances
  <2> DEFINE p == EmitPrevote(n, node[n])
             a == AdvanceRound(p)
  <2>1. PICK outcome : node' = [node EXCEPT ![n] = MaybePropose(n, a, outcome)]
    BY <1>8 DEF Timeout
  <2> DEFINE t == MaybePropose(n, a, outcome)
  <2>2. Advances(node[n], p)
    BY <1>2, EmitPrevoteAdvances
  <2> HIDE DEF p
  <2>3. Advances(p, a)
    BY <2>2, AdvanceRoundAdvances DEF Advances
  <2> HIDE DEF a
  <2>4. Advances(a, t)
    BY <2>3, MaybeProposeAdvances DEF Advances
  <2>5. node' = [node EXCEPT ![n] = t]
    BY <2>1
  <2> HIDE DEF t
  <2>6. Advances(node[n], t)
    <3>1. Advances(node[n], a)
      BY <1>2, <2>2, <2>3, AdvancesTransitive
    <3> QED
      BY <1>2, <2>4, <3>1, AdvancesTransitive
  <2> QED
    BY <1>1, <2>5, <2>6
<1> QED
  BY <1>4, <1>5, <1>6, <1>7, <1>8 DEF Next

LEMMA SnapInvNext == SnapInv /\ [Next]_vars => SnapInv'
<1> SUFFICES ASSUME SnapInv, [Next]_vars PROVE SnapInv'
  OBVIOUS
<1>1. ProposalInv'
  BY ProposalInvNext DEF SnapInv
<1>2. CASE UNCHANGED vars
  BY <1>1, <1>2 DEF SnapInv, SnapCurrent, vars
<1>3. CASE Next
  <2>1. PICK n \in Nodes : \E s : node' = [node EXCEPT ![n] = s] /\ Advances(node[n], s)
    BY <1>3, NextAdvances DEF OneAdvances
  <2>2. PICK s : node' = [node EXCEPT ![n] = s] /\ Advances(node[n], s)
    BY <2>1
  <2>3. ASSUME NEW m \in Nodes PROVE SnapCurrent(node'[m])
    <3>1. node'[m] = s \/ node'[m] = node[m]
      BY <2>2 DEF SnapInv, ProposalInv
    <3> QED
      BY <2>2, <3>1 DEF SnapInv, Advances
  <2> QED
    BY <1>1, <2>3 DEF SnapInv, SnapCurrent
<1> QED
  BY <1>2, <1>3

(* No step of a node, and no restart, takes it back to a height or round   *)
(* it has left: the snapshot stored by advance_round and advance_height is *)
(* always current, and recover_snapshot never falls behind it.             *)
THEOREM NoRegressTheorem == Spec => NoRegress
<1> DEFINE Forward == \A n \in Nodes : Later(node[n], node'[n])
<1>1. Init => SnapInv
  <2> SUFFICES ASSUME Init PROVE SnapInv
    OBVIOUS
  <2>1. SnapCurrent(BlankNode)
    BY DEF SnapCurrent, BlankNode
  <2> QED
    BY <2>1, ProposalInvInit DEF Init, SnapInv
<1>2. SnapInv /\ [Next]_vars => [Forward]_vars
  <2> SUFFICES ASSUME SnapInv, Next PROVE Forward
    BY DEF vars
  <2>1. PICK n \in Nodes : \E s : node' = [node EXCEPT ![n] = s] /\ Advances(node[n], s)
    BY NextAdvances DEF OneAdvances
  <2>2. PICK s : node' = [node EXCEPT ![n] = s] /\ Advances(node[n], s)
    BY <2>1
  <2>3. ASSUME NEW m \in Nodes PROVE Later(node[m], node'[m])
    <3>1. (m = n /\ node'[m] = s) \/ node'[m] = node[m]
      BY <2>2 DEF SnapInv, ProposalInv
    <3>2. Later(node[m], node[m])
      BY DEF Later, SnapInv, ProposalInv, NodeType
    <3> QED
      BY <2>2, <3>1, <3>2 DEF Advances
  <2> QED
    BY <2>3
<1>3. [Forward]_vars <=> [\A n \in Nodes :
                            \/ node'[n].height > node[n].height
                            \/ node'[n].height = node[n].height
                               /\ node'[n].round >= node[n].round]_vars
  BY DEF Later
<1> HIDE DEF Forward
<1> QED
  BY <1>1, <1>2, <1>3, SnapInvNext, PTL DEF Spec, NoRegress

-----------------------------------------------------------------------------
(* The type invariant.                                                     *)

(* Parts of the type of a node, each about the value of one field, so that *)
(* an operation needs to look only into the fields it changes.             *)
IsFlag(x) == x \in BOOLEAN
HashAt(p, h, r) == IsHash(p) /\ \A b \in p : b.height = h /\ b.round = r
AreBallots(V) == \A v \in V : IsBallot(v)
AreBlocks(B) == \A b \in B : IsBlock(b)
AreFinalized(F) == \A f \in F : IsBlock(f.block)
Below(L, h) == \A p \in L : p.height \in Nat /\ p.height < h
AreValidators(E) == \A e \in E : e.validator \in Validators

(* TypeOK for one node, made inductive: the proposal is one of the current *)
(* height and round, which a lock takes over; the latest block is below    *)
(* the current height, which a new block builds on; what others will       *)
(* import is a block; evidence is about validators, whom finalize jails.   *)
WellTyped(s) ==
    /\ NodeType(s) /\ SnapCurrent(s)
    /\ s.height # 0 /\ s.round <= MaxRound
    /\ IsFlag(s.up) /\ IsFlag(s.prevoted) /\ IsFlag(s.precommitted)
    /\ HashAt(s.proposal, s.height, s.round)
    /\ AreBallots(s.votes) /\ AreBallots(s.ballots)
    /\ IsLock(s.locked) /\ IsLock(s.valid)
    /\ IsLock(s.walLocked) /\ IsLock(s.walValid)
    /\ AreBlocks(s.proposals) /\ AreFinalized(s.commits)
    /\ Below(s.latest, s.height)
    /\ AreValidators(s.evidence) /\ s.jailed \subseteq Validators

LEMMA NilTyped ==
    /\ \A h, r : HashAt({}, h, r)
    /\ AreBallots({}) /\ AreBlocks({}) /\ AreFinalized({}) /\ IsLock({})
    /\ AreValidators({}) /\ \A h : Below({}, h)
    /\ IsFlag(TRUE) /\ IsFlag(FALSE)
BY DEF HashAt, IsHash, Nil, AreBallots, AreBlocks, AreFinalized, IsLock, AreValidators,
       Below, IsFlag

\* The lock record_vote takes on a polka for the proposal it holds.
LEMMA LockTyped ==
    ASSUME NEW p, NEW h, NEW r, HashAt(p, h, r)
    PROVE  IsLock({[round |-> r, block |-> b] : b \in p})
<1>1. CASE p = {}
  BY <1>1, NilTyped
<1>2. CASE p # {}
  <2>1. PICK b : p = {b} /\ IsBlock(b) /\ b.round = r
    BY <1>2 DEF HashAt, IsHash, Nil
  <2>2. {[round |-> r, block |-> c] : c \in p} = {[round |-> r, block |-> b]}
    BY <2>1
  <2> QED
    BY <2>1, <2>2 DEF IsLock
<1> QED
  BY <1>1, <1>2

LEMMA RecordVoteTyped ==
    ASSUME NEW s, WellTyped(s), NEW v, IsBallot(v)
    PROVE  LET t == RecordVote(s, v)
           IN  WellTyped(t) /\ t.round = s.round /\ t.height = s.height
<1> DEFINE t == RecordVote(s, v)
<1>1. NodeType(s) /\ SnapCurrent(s) /\ IsNode(s)
  BY DEF WellTyped, NodeType
<1>2. NodeType(t) /\ SnapCurrent(t)
  BY <1>1, RecordVoteAdvances DEF Advances
<1>3. CASE Conflicts(s, v)
  <2> DEFINE E == s.evidence \cup {[validator |-> v.validator,
                                    height |-> v.height, round |-> v.round]}
  <2>1. t = [s EXCEPT !.evidence = E]
    BY <1>3 DEF RecordVote
  <2>2. AreValidators(E)
    BY DEF WellTyped, AreValidators, IsBallot
  <2> HIDE DEF E
  <2>3. Changes(s, t, {"evidence"}) /\ t.evidence = E
    BY <1>1, <2>1 DEF Changes, IsNode, Fields
  <2> HIDE DEF t
  <2>4. WellTyped(t) /\ t.round = s.round /\ t.height = s.height
    BY <1>2, <2>2, <2>3 DEF WellTyped, Changes, Fields
  <2> QED
    BY <2>4 DEF t
<1>4. CASE ~Conflicts(s, v)
  <2> DEFINE lock == {[round |-> s.round, block |-> b] : b \in s.proposal}
  <2>1. /\ Changes(s, t, {"votes", "valid", "walValid", "locked", "walLocked"})
        /\ t.votes = s.votes \cup {v}
        /\ \/ /\ t.locked = s.locked /\ t.valid = s.valid
              /\ t.walLocked = s.walLocked /\ t.walValid = s.walValid
           \/ /\ t.locked = lock /\ t.valid = lock
              /\ t.walLocked = lock /\ t.walValid = lock
    BY <1>1, <1>4, RecordVoteChanges
  <2>2. AreBallots(s.votes \cup {v})
    BY DEF WellTyped, AreBallots
  <2>3. IsLock(lock)
    BY LockTyped DEF WellTyped
  <2> HIDE DEF t, lock
  <2>4. /\ IsLock(t.locked) /\ IsLock(t.valid)
        /\ IsLock(t.walLocked) /\ IsLock(t.walValid)
    BY <2>1, <2>3 DEF WellTyped
  <2>5. /\ t.round = s.round /\ t.height = s.height
        /\ t.up = s.up /\ t.prevoted = s.prevoted /\ t.precommitted = s.precommitted
        /\ t.proposal = s.proposal /\ t.ballots = s.ballots
        /\ t.proposals = s.proposals /\ t.commits = s.commits /\ t.latest = s.latest
        /\ t.evidence = s.evidence /\ t.jailed = s.jailed
    BY <2>1 DEF Changes, Fields
  <2>6. WellTyped(t)
    BY <1>2, <2>1, <2>2, <2>4, <2>5 DEF WellTyped
  <2> QED
    BY <2>5, <2>6 DEF t
<1> QED
  BY <1>3, <1>4

LEMMA SignBallotTyped ==
    ASSUME NEW s, WellTyped(s), NEW v, IsBallot(v)
    PROVE  LET t == SignBallot(s, v)
           IN  /\ WellTyped(t) /\ t.round = s.round /\ t.height = s.height
               /\ t.proposal = s.proposal
<1> DEFINE t == SignBallot(s, v)
<1>1. NodeType(s) /\ SnapCurrent(s) /\ IsNode(s)
  BY DEF WellTyped, NodeType
<1>2. NodeType(t) /\ SnapCurrent(t)
  BY <1>1, SignBallotAdvances DEF Advances
<1>3. /\ Changes(s, t, {"prevoted", "precommitted", "ballots"})
      /\ t.ballots = s.ballots \cup {v}
      /\ IF v.step = "prevote"
         THEN t.prevoted = TRUE /\ t.precommitted = s.precommitted
         ELSE t.precommitted = TRUE /\ t.prevoted = s.prevoted
  BY <1>1, SignBallotChanges
<1>4. AreBallots(s.ballots \cup {v})
  BY DEF WellTyped, AreBallots
<1> HIDE DEF t
<1>5. IsFlag(t.prevoted) /\ IsFlag(t.precommitted)
  BY <1>3, NilTyped DEF WellTyped
<1>6. /\ t.round = s.round /\ t.height = s.height /\ t.up = s.up
      /\ t.proposal = s.proposal /\ t.votes = s.votes
      /\ t.locked = s.locked /\ t.valid = s.valid
      /\ t.walLocked = s.walLocked /\ t.walValid = s.walValid
      /\ t.proposals = s.proposals /\ t.commits = s.commits /\ t.latest = s.latest
      /\ t.evidence = s.evidence /\ t.jailed = s.jailed
  BY <1>3 DEF Changes, Fields
<1>7. WellTyped(t)
  BY <1>2, <1>3, <1>4, <1>5, <1>6 DEF WellTyped
<1> QED
  BY <1>6, <1>7 DEF t

LEMMA BallotTyped ==
    ASSUME NEW n \in Validators, NEW s, WellTyped(s),
           NEW step \in {"prevote", "precommit"}, NEW hash, IsHash(hash)
    PROVE  IsBallot(Ballot(n, s, step, hash))
BY DEF Ballot, IsBallot, WellTyped, NodeType

LEMMA FinalizeTyped ==
    ASSUME NEW s, WellTyped(s), NEW hash, hash # Nil
    PROVE  LET t == Finalize(s, hash)
           IN  WellTyped(t) /\ t.round \in {s.round, 0}
<1> DEFINE t == Finalize(s, hash)
<1>1. NodeType(s) /\ SnapCurrent(s) /\ IsNode(s)
  BY DEF WellTyped, NodeType
<1>2. NodeType(t) /\ SnapCurrent(t)
  BY <1>1, FinalizeAdvances DEF Advances
<1>3. t = s \/ FinalizedTo(s, t, hash)
  BY <1>1, FinalizeChanges
<1> HIDE DEF t
<1>4. ASSUME FinalizedTo(s, t, hash)
      PROVE  WellTyped(t) /\ t.round = 0
  <2>1. /\ t.height = s.height + 1 /\ t.round = 0
        /\ t.proposal = {} /\ t.votes = {} /\ t.locked = {} /\ t.valid = {}
        /\ t.prevoted = FALSE /\ t.precommitted = FALSE /\ t.evidence = {}
        /\ t.jailed = s.jailed \cup {e.validator : e \in s.evidence}
    BY <1>4 DEF FinalizedTo
  <2>2. PICK f : /\ f.block \in s.proposal /\ t.latest = {f.block}
                 /\ t.commits = s.commits \cup {f}
    BY <1>4 DEF FinalizedTo
  <2>3. /\ t.up = s.up /\ t.ballots = s.ballots /\ t.proposals = s.proposals
        /\ t.walLocked = s.walLocked /\ t.walValid = s.walValid
    BY <1>4 DEF FinalizedTo, Changes, Fields
  <2>4. IsBlock(f.block) /\ f.block.height = s.height
    BY <2>2 DEF WellTyped, HashAt, IsHash, Nil
  <2>5. AreFinalized(t.commits)
    BY <2>2, <2>4 DEF AreFinalized, WellTyped
  <2>6. Below(t.latest, t.height)
    BY <1>1, <2>1, <2>2, <2>4 DEF Below, NodeType
  <2>7. t.jailed \subseteq Validators
    BY <2>1 DEF WellTyped, AreValidators
  <2>8. t.height # 0 /\ t.round <= MaxRound
    BY <1>1, <2>1, BoundsAssumption DEF NodeType
  <2> QED
    BY <1>2, <2>1, <2>3, <2>5, <2>6, <2>7, <2>8, NilTyped DEF WellTyped
<1>5. WellTyped(t) /\ t.round \in {s.round, 0}
  BY <1>3, <1>4
<1> QED
  BY <1>5 DEF t

LEMMA HandleVoteActionsTyped ==
    ASSUME NEW n, NEW s, WellTyped(s), NEW v, IsBallot(v)
    PROVE  LET t == HandleVoteActions(n, s, v)
           IN  WellTyped(t) /\ t.round \in {s.round, 0}
<1> DEFINE recorded  == RecordVote(s, v)
           precommit == Ballot(n, recorded, "precommit", v.hash)
           signed    == SignBallot(recorded, precommit)
           counted   == RecordVote(signed, precommit)
<1>1. \E w : /\ w = recorded \/ (n \in Validators /\ w = counted)
             /\ \/ HandleVoteActions(n, s, v) = w
                \/ v.hash # Nil /\ HandleVoteActions(n, s, v) = Finalize(w, v.hash)
  BY DEF HandleVoteActions, LocalActive
<1>2. WellTyped(recorded) /\ recorded.round = s.round
  BY RecordVoteTyped
<1> HIDE DEF recorded
<1>3. n \in Validators => WellTyped(counted) /\ counted.round = s.round
  <2> SUFFICES ASSUME n \in Validators
               PROVE  WellTyped(counted) /\ counted.round = s.round
    OBVIOUS
  <2>1. IsBallot(precommit)
    BY <1>2, BallotTyped DEF IsBallot
  <2> HIDE DEF precommit
  <2>2. WellTyped(signed) /\ signed.round = s.round
    BY <1>2, <2>1, SignBallotTyped
  <2> HIDE DEF signed
  <2> QED
    BY <2>1, <2>2, RecordVoteTyped
<1> HIDE DEF counted
<1>4. PICK w : /\ w = recorded \/ (n \in Validators /\ w = counted)
               /\ \/ HandleVoteActions(n, s, v) = w
                  \/ v.hash # Nil /\ HandleVoteActions(n, s, v) = Finalize(w, v.hash)
  BY <1>1
<1>5. WellTyped(w) /\ w.round = s.round
  BY <1>2, <1>3, <1>4
<1> QED
  BY <1>4, <1>5, FinalizeTyped

LEMMA EmitPrevoteTyped ==
    ASSUME NEW n, NEW s, WellTyped(s)
    PROVE  LET t == EmitPrevote(n, s)
           IN  WellTyped(t) /\ t.round \in {s.round, 0}
<1> DEFINE hash == PrevoteHash(s)
           v == Ballot(n, s, "prevote", hash)
           signed == SignBallot(s, v)
<1>1. \/ EmitPrevote(n, s) = s
      \/ n \in Validators /\ EmitPrevote(n, s) = HandleVoteActions(n, signed, v)
  BY DEF EmitPrevote, LocalActive
<1>2. CASE EmitPrevote(n, s) = s
  BY <1>2
<1>3. CASE n \in Validators /\ EmitPrevote(n, s) = HandleVoteActions(n, signed, v)
  <2>1. IsHash(hash)
    BY DEF PrevoteHash, WellTyped, HashAt, IsHash
  <2> HIDE DEF hash
  <2>2. IsBallot(v)
    BY <1>3, <2>1, BallotTyped
  <2> HIDE DEF v
  <2>3. WellTyped(signed) /\ signed.round = s.round
    BY <2>2, SignBallotTyped
  <2> HIDE DEF signed
  <2> QED
    BY <1>3, <2>2, <2>3, HandleVoteActionsTyped
<1> QED
  BY <1>1, <1>2, <1>3

LEMMA AdvanceRoundTyped ==
    ASSUME NEW s, WellTyped(s), s.round < MaxRound
    PROVE  WellTyped(AdvanceRound(s))
<1> DEFINE t == AdvanceRound(s)
<1>1. NodeType(s) /\ SnapCurrent(s) /\ IsNode(s)
  BY DEF WellTyped, NodeType
<1>2. NodeType(t) /\ SnapCurrent(t)
  BY <1>1, AdvanceRoundAdvances DEF Advances
<1>3. /\ Changes(s, t, {"proposal", "votes", "prevoted", "precommitted", "round", "snap"})
      /\ t.round = s.round + 1
      /\ t.proposal = {} /\ t.votes = {}
      /\ t.prevoted = FALSE /\ t.precommitted = FALSE
  BY <1>1, AdvanceRoundChanges
<1> HIDE DEF t
<1>4. /\ t.height = s.height /\ t.up = s.up /\ t.ballots = s.ballots
      /\ t.locked = s.locked /\ t.valid = s.valid
      /\ t.walLocked = s.walLocked /\ t.walValid = s.walValid
      /\ t.proposals = s.proposals /\ t.commits = s.commits /\ t.latest = s.latest
      /\ t.evidence = s.evidence /\ t.jailed = s.jailed
  BY <1>3 DEF Changes, Fields
<1>5. t.round <= MaxRound
  BY <1>1, <1>3, BoundsAssumption DEF NodeType
<1>6. WellTyped(t)
  BY <1>2, <1>3, <1>4, <1>5, NilTyped DEF WellTyped
<1> QED
  BY <1>6 DEF t

(* maybe_propose by what it has done when it stops: it has spent the right *)
(* to propose, the dry run has ended the task, or the block is offered and *)
(* prevoted.                                                               *)
Spent(s) == [s EXCEPT !.protection = s.height]

Halted(s) == [Spent(s) EXCEPT !.up = FALSE]

Offered(n, s, payload) ==
    LET b == NewBlock(n, s, payload)
    IN  [Spent(s) EXCEPT !.proposal = {b}, !.proposals = @ \cup {b}]

LEMMA MaybeProposeSteps ==
    ASSUME NEW n, NEW s, NEW outcome \in Outcomes
    PROVE  LET t == MaybePropose(n, s, outcome)
           IN  \/ t \in {s, Spent(s), Halted(s)}
               \/ /\ MayPropose(n, s) /\ outcome \in Payloads
                  /\ t = EmitPrevote(n, Offered(n, s, outcome))
<1>1. outcome \notin {"oversize", "dry_run_error"} => outcome \in Payloads
  BY BuildAssumption DEF Outcomes
<1> QED
  BY <1>1 DEF MaybePropose, Spent, Halted, Offered

LEMMA OfferedChanges ==
    ASSUME NEW n, NEW s, IsNode(s), NEW payload
    PROVE  LET b == NewBlock(n, s, payload)
               t == Offered(n, s, payload)
           IN  /\ Changes(s, t, {"protection", "proposal", "proposals"})
               /\ t.protection = s.height
               /\ t.proposal = {b} /\ t.proposals = s.proposals \cup {b}
BY DEF IsNode, Changes, Fields, Offered, Spent

LEMMA NewBlockFields ==
    ASSUME NEW n, NEW s, NEW payload
    PROVE  LET b == NewBlock(n, s, payload)
           IN  /\ b.height = s.height /\ b.round = s.round /\ b.proposer = n
               /\ b.parent = s.latest /\ b.payload = payload
BY DEF NewBlock

LEMMA SpentChanges ==
    ASSUME NEW s, IsNode(s)
    PROVE  /\ Changes(s, Spent(s), {"protection"}) /\ Spent(s).protection = s.height
           /\ Changes(s, Halted(s), {"protection", "up"}) /\ Halted(s).protection = s.height
           /\ Halted(s).up = FALSE
BY DEF IsNode, Changes, Fields, Spent, Halted

LEMMA SpentTyped ==
    ASSUME NEW s, WellTyped(s)
    PROVE  WellTyped(Spent(s)) /\ WellTyped(Halted(s))
<1>1. NodeType(s) /\ SnapCurrent(s) /\ IsNode(s)
  BY DEF WellTyped, NodeType
<1>2. ASSUME NEW t, Changes(s, t, {"protection", "up"}), t.protection = s.height,
             t.up \in {s.up, FALSE}
      PROVE  WellTyped(t)
  <2>1. NodeType(t)
    BY <1>1, <1>2 DEF NodeType, Changes, Fields
  <2>2. SnapCurrent(t)
    BY <1>1, <1>2 DEF SnapCurrent, Changes, Fields
  <2>3. IsFlag(t.up)
    BY <1>2, NilTyped DEF WellTyped
  <2> QED
    BY <1>2, <2>1, <2>2, <2>3 DEF WellTyped, Changes, Fields
<1>3. /\ Changes(s, Spent(s), {"protection", "up"}) /\ Spent(s).protection = s.height
      /\ Spent(s).up = s.up
  BY <1>1, SpentChanges DEF Changes, Fields
<1> QED
  BY <1>1, <1>2, <1>3, SpentChanges

LEMMA OfferedTyped ==
    ASSUME NEW n \in Validators, NEW s, WellTyped(s), NEW payload \in Payloads
    PROVE  WellTyped(Offered(n, s, payload))
<1> DEFINE b == NewBlock(n, s, payload)
           t == Offered(n, s, payload)
<1>1. NodeType(s) /\ SnapCurrent(s) /\ IsNode(s)
  BY DEF WellTyped, NodeType
<1>2. /\ b.height = s.height /\ b.round = s.round /\ b.proposer = n
      /\ b.parent = s.latest /\ b.payload = payload
  BY NewBlockFields
<1>3. /\ Changes(s, t, {"protection", "proposal", "proposals"})
      /\ t.protection = s.height
      /\ t.proposal = {b} /\ t.proposals = s.proposals \cup {b}
  BY <1>1, OfferedChanges
<1> HIDE DEF b, t
<1>4. /\ s.height \in Nat \ {0} /\ s.round \in 0..MaxRound
      /\ \A p \in s.latest : p.height < s.height
  BY <1>1, BoundsAssumption DEF WellTyped, NodeType, Below
<1>5. IsBlock(b) /\ BlockType(b)
  BY <1>1, <1>2, <1>4 DEF IsBlock, BlockType, NodeType
<1>6. HashAt(t.proposal, s.height, s.round) /\ AreBlocks(t.proposals)
  BY <1>2, <1>3, <1>5 DEF HashAt, IsHash, WellTyped, AreBlocks
<1>7. NodeType(t)
  BY <1>1, <1>3, <1>5 DEF NodeType, Changes, Fields
<1>8. SnapCurrent(t)
  BY <1>1, <1>3 DEF SnapCurrent, Changes, Fields
<1>9. WellTyped(t)
  BY <1>3, <1>6, <1>7, <1>8 DEF WellTyped, Changes, Fields
<1> QED
  BY <1>9 DEF t

LEMMA MaybeProposeTyped ==
    ASSUME NEW n, NEW s, WellTyped(s), NEW outcome \in Outcomes
    PROVE  WellTyped(MaybePropose(n, s, outcome))
<1>1. CASE MaybePropose(n, s, outcome) \in {s, Spent(s), Halted(s)}
  BY <1>1, SpentTyped
<1>2. CASE /\ MayPropose(n, s) /\ outcome \in Payloads
           /\ MaybePropose(n, s, outcome) = EmitPrevote(n, Offered(n, s, outcome))
  <2>1. WellTyped(Offered(n, s, outcome))
    BY <1>2, OfferedTyped DEF MayPropose, LocalActive
  <2> QED
    BY <1>2, <2>1, EmitPrevoteTyped
<1> QED
  BY <1>1, <1>2, MaybeProposeSteps

LEMMA RecoveredTyped ==
    ASSUME NEW s, WellTyped(s)
    PROVE  WellTyped(PersistSnapshot(Recovered(s)))
<1> DEFINE rec == RecoverSnapshot(s)
           r == ResetRound(s)
           a == [r EXCEPT !.up = TRUE, !.evidence = {},
                          !.height = rec.height, !.round = rec.round,
                          !.locked = rec.locked, !.valid = rec.valid]
           t == PersistSnapshot(a)
<1>1. NodeType(s) /\ SnapCurrent(s) /\ IsNode(s)
  BY DEF WellTyped, NodeType
<1>2. t = PersistSnapshot(Recovered(s))
  BY DEF Recovered
<1>3. NodeType(t) /\ SnapCurrent(t)
  BY <1>1, <1>2, RecoveredAdvances DEF Advances
<1>4. /\ rec.height \in Nat /\ rec.height >= s.height
      /\ rec.round <= MaxRound
  BY <1>1, BoundsAssumption DEF RecoverSnapshot, WellTyped, NodeType, SnapCurrent
<1>5. IsLock(rec.locked) /\ IsLock(rec.valid)
  <2>1. ASSUME NEW L, IsLock(L), NEW h
        PROVE  IsLock({l \in L : l.block.height = h})
    <3>1. CASE L = {}
      BY <3>1 DEF IsLock
    <3>2. CASE L # {}
      <4>1. PICK x : L = {x} /\ IsBlock(x.block) /\ x.round = x.block.round
        BY <2>1, <3>2 DEF IsLock
      <4>2. {l \in L : l.block.height = h} \in {{}, {x}}
        BY <4>1
      <4> QED
        BY <4>1, <4>2 DEF IsLock
    <3> QED
      BY <3>1, <3>2
  <2>2. /\ rec.locked = {l \in s.walLocked : l.block.height = rec.height}
        /\ rec.valid = {l \in s.walValid : l.block.height = rec.height}
    BY DEF RecoverSnapshot
  <2>3. IsLock(s.walLocked) /\ IsLock(s.walValid)
    BY DEF WellTyped
  <2> HIDE DEF rec
  <2>4. IsLock({l \in s.walLocked : l.block.height = rec.height})
    BY <2>1, <2>3
  <2>5. IsLock({l \in s.walValid : l.block.height = rec.height})
    BY <2>1, <2>3
  <2> QED
    BY <2>2, <2>4, <2>5
<1>6. /\ Changes(s, r, {"proposal", "votes", "prevoted", "precommitted"})
      /\ r.proposal = {} /\ r.votes = {}
      /\ r.prevoted = FALSE /\ r.precommitted = FALSE
  BY <1>1, ResetRoundChanges
<1> HIDE DEF rec, r
<1>7. /\ Changes(r, a, {"up", "evidence", "height", "round", "locked", "valid"})
      /\ a.up = TRUE /\ a.evidence = {}
      /\ a.height = rec.height /\ a.round = rec.round
      /\ a.locked = rec.locked /\ a.valid = rec.valid
  BY <1>6 DEF Changes, IsNode, Fields
<1> HIDE DEF a
<1>8. Changes(a, t, {"snap"})
  BY <1>7, PersistSnapshotChanges DEF Changes
<1> HIDE DEF t
<1>9. /\ t.up = TRUE /\ t.evidence = {} /\ t.height = rec.height /\ t.round = rec.round
      /\ t.locked = rec.locked /\ t.valid = rec.valid
      /\ t.proposal = {} /\ t.votes = {} /\ t.prevoted = FALSE /\ t.precommitted = FALSE
      /\ t.ballots = s.ballots /\ t.walLocked = s.walLocked /\ t.walValid = s.walValid
      /\ t.proposals = s.proposals /\ t.commits = s.commits /\ t.latest = s.latest
      /\ t.jailed = s.jailed
  BY <1>6, <1>7, <1>8 DEF Changes, Fields
<1>10. Below(s.latest, rec.height) /\ rec.height # 0
  BY <1>1, <1>4 DEF WellTyped, Below, NodeType
<1>11. WellTyped(t)
  BY <1>3, <1>4, <1>5, <1>9, <1>10, NilTyped DEF WellTyped
<1> QED
  BY <1>2, <1>11

LEMMA ImportFinalizedBlockTyped ==
    ASSUME NEW s, WellTyped(s),
           NEW f, IsBlock(f.block), f.block.height >= s.height
    PROVE  WellTyped(ImportFinalizedBlock(s, f))
<1> DEFINE h == f.block.height
           w == WalCommitFinalized(s, h)
           c == CommitBlock(w, f)
           next == h + 1
           t == AdvanceHeight(c, next)
<1>1. NodeType(s) /\ SnapCurrent(s) /\ IsNode(s) /\ BlockType(f.block)
  BY DEF WellTyped, NodeType, BlockType, IsBlock
<1>2. ImportFinalizedBlock(s, f) = IF f.block.parent # s.latest THEN w ELSE t
  BY DEF ImportFinalizedBlock
<1>3. NodeType(ImportFinalizedBlock(s, f)) /\ SnapCurrent(ImportFinalizedBlock(s, f))
  BY <1>1, ImportFinalizedBlockAdvances DEF Advances
<1>4. Changes(s, w, {"walCommit"})
  BY <1>1, WalCommitFinalizedChanges
<1> HIDE DEF w
<1>5. Changes(w, c, {"blocks", "latest"}) /\ c.latest = {f.block}
  <2>1. IsNode(w)
    BY <1>4 DEF Changes
  <2> QED
    BY <2>1, CommitBlockChanges
<1> HIDE DEF c
<1>6. AtHeight(c, t, next)
  <2>1. IsNode(c)
    BY <1>5 DEF Changes
  <2> HIDE DEF next
  <2> QED
    BY <2>1, AdvanceHeightChanges
<1> HIDE DEF t
<1>7. CASE f.block.parent # s.latest
  <2>1. NodeType(w) /\ SnapCurrent(w)
    BY <1>2, <1>3, <1>7
  <2>2. WellTyped(w)
    BY <1>4, <2>1 DEF WellTyped, Changes, Fields
  <2> QED
    BY <1>2, <1>7, <2>2
<1>8. CASE ~(f.block.parent # s.latest)
  <2>1. NodeType(t) /\ SnapCurrent(t)
    BY <1>2, <1>3, <1>8
  <2>2. /\ t.up = s.up /\ t.ballots = s.ballots /\ t.proposals = s.proposals
        /\ t.commits = s.commits /\ t.latest = {f.block}
        /\ t.walLocked = s.walLocked /\ t.walValid = s.walValid
        /\ t.evidence = s.evidence /\ t.jailed = s.jailed
    BY <1>4, <1>5, <1>6 DEF AtHeight, Changes, Fields
  <2>3. /\ t.height = h + 1 /\ t.round = 0
        /\ t.proposal = {} /\ t.votes = {} /\ t.locked = {} /\ t.valid = {}
        /\ t.prevoted = FALSE /\ t.precommitted = FALSE
    BY <1>6 DEF AtHeight
  <2>4. Below(t.latest, t.height) /\ t.height # 0 /\ t.round <= MaxRound
    BY <1>1, <2>2, <2>3, BoundsAssumption DEF Below, BlockType
  <2>5. WellTyped(t)
    BY <2>1, <2>2, <2>3, <2>4, NilTyped DEF WellTyped
  <2> QED
    BY <1>2, <1>8, <2>5
<1> QED
  BY <1>7, <1>8

\* on_proposal by what it does with the block: hold it, or accuse.
Held(s, b) == [s EXCEPT !.proposal = {b}]

Accused(s, b) ==
    [s EXCEPT !.evidence = @ \cup {[validator |-> b.proposer,
                                    height |-> b.height, round |-> b.round]}]

LEMMA ReceiveProposalSteps ==
    ASSUME NEW n, NEW s, NEW b
    PROVE  LET t == ReceiveProposal(n, s, b)
           IN  \/ s.proposal = {} /\ t = EmitPrevote(n, Held(s, b))
               \/ s.proposal = {b} /\ t = s
               \/ s.proposal \notin {{}, {b}} /\ t = Accused(s, b)
BY DEF ReceiveProposal, Held, Accused

LEMMA HeldChanges ==
    ASSUME NEW s, IsNode(s), NEW b
    PROVE  /\ Changes(s, Held(s, b), {"proposal"}) /\ Held(s, b).proposal = {b}
           /\ Changes(s, Accused(s, b), {"evidence"})
           /\ \A e \in Accused(s, b).evidence :
                 e \in s.evidence \/ e.validator = b.proposer
BY DEF IsNode, Changes, Fields, Held, Accused

LEMMA HeldTyped ==
    ASSUME NEW s, WellTyped(s), NEW b, IsBlock(b), Current(s, b)
    PROVE  WellTyped(Held(s, b)) /\ WellTyped(Accused(s, b))
<1> DEFINE held == Held(s, b)
           accused == Accused(s, b)
<1>1. NodeType(s) /\ SnapCurrent(s) /\ IsNode(s) /\ BlockType(b)
  BY DEF WellTyped, NodeType, BlockType, IsBlock
<1>2. /\ Changes(s, held, {"proposal"}) /\ held.proposal = {b}
      /\ Changes(s, accused, {"evidence"})
      /\ \A e \in accused.evidence : e \in s.evidence \/ e.validator = b.proposer
  BY <1>1, HeldChanges
<1> HIDE DEF held, accused
<1>3. AreValidators(accused.evidence)
  BY <1>2 DEF WellTyped, AreValidators, IsBlock
<1>4. HashAt({b}, s.height, s.round)
  BY DEF HashAt, IsHash, Current
<1>5. WellTyped(accused)
  <2>1. NodeType(accused)
    BY <1>1, <1>2 DEF NodeType, Changes, Fields
  <2>2. SnapCurrent(accused)
    BY <1>1, <1>2 DEF SnapCurrent, Changes, Fields
  <2> QED
    BY <1>2, <1>3, <2>1, <2>2 DEF WellTyped, Changes, Fields
<1>6. WellTyped(held)
  <2>1. NodeType(held)
    BY <1>1, <1>2 DEF NodeType, Changes, Fields
  <2>2. SnapCurrent(held)
    BY <1>1, <1>2 DEF SnapCurrent, Changes, Fields
  <2>3. held.height = s.height /\ held.round = s.round
    BY <1>2 DEF Changes, Fields
  <2> QED
    BY <1>2, <1>4, <2>1, <2>2, <2>3 DEF WellTyped, Changes, Fields
<1> QED
  BY <1>5, <1>6 DEF held, accused

LEMMA ReceiveProposalTyped ==
    ASSUME NEW n, NEW s, WellTyped(s), NEW b, IsBlock(b), Current(s, b)
    PROVE  WellTyped(ReceiveProposal(n, s, b))
BY ReceiveProposalSteps, HeldTyped, EmitPrevoteTyped

-----------------------------------------------------------------------------
TypeInv ==
    /\ DOMAIN node = Nodes
    /\ \A n \in Nodes : WellTyped(node[n])
    /\ restarts \in 0..MaxRestarts

OneTyped ==
    \E n \in Nodes : \E s : node' = [node EXCEPT ![n] = s] /\ WellTyped(s)

LEMMA NextTyped ==
    ASSUME TypeInv, Next
    PROVE  OneTyped /\ restarts' \in 0..MaxRestarts
<1>1. ASSUME NEW n \in Nodes, NEW s, node' = [node EXCEPT ![n] = s], WellTyped(s)
      PROVE  OneTyped
  BY <1>1 DEF OneTyped
<1>2. ASSUME NEW n \in Nodes PROVE WellTyped(node[n])
  BY DEF TypeInv
<1>3. ASSUME NEW n \in Nodes, NEW outcome \in Outcomes, Boot(n, outcome)
      PROVE  OneTyped
  BY <1>1, <1>2, <1>3, RecoveredTyped, MaybeProposeTyped DEF Boot
<1>4. ASSUME NEW n \in Nodes, Start(n) \/ Restart(n)
      PROVE  OneTyped /\ restarts' \in 0..MaxRestarts
  BY <1>3, <1>4, BoundsAssumption DEF Start, Restart, TypeInv
<1>5. ASSUME NEW n \in Nodes, OnProposal(n)
      PROVE  OneTyped /\ restarts' \in 0..MaxRestarts
  <2>1. PICK m \in Nodes : \E b \in node[m].proposals :
           /\ Current(node[n], b)
           /\ node' = [node EXCEPT ![n] = ReceiveProposal(n, node[n], b)]
    BY <1>5 DEF OnProposal, Peers
  <2>2. PICK b \in node[m].proposals :
           /\ Current(node[n], b)
           /\ node' = [node EXCEPT ![n] = ReceiveProposal(n, node[n], b)]
    BY <2>1
  <2>3. IsBlock(b)
    BY <1>2 DEF WellTyped, AreBlocks
  <2>4. WellTyped(ReceiveProposal(n, node[n], b))
    BY <1>2, <2>2, <2>3, ReceiveProposalTyped
  <2> QED
    BY <1>1, <1>5, <2>2, <2>4 DEF OnProposal, TypeInv
<1>6. ASSUME NEW n \in Nodes, OnVote(n)
      PROVE  OneTyped /\ restarts' \in 0..MaxRestarts
  <2>1. PICK m \in Nodes : \E v \in node[m].ballots :
           node' = [node EXCEPT ![n] = HandleVoteActions(n, node[n], v)]
    BY <1>6 DEF OnVote, Peers
  <2>2. PICK v \in node[m].ballots :
           node' = [node EXCEPT ![n] = HandleVoteActions(n, node[n], v)]
    BY <2>1
  <2>3. IsBallot(v)
    BY <1>2 DEF WellTyped, AreBallots
  <2>4. WellTyped(HandleVoteActions(n, node[n], v))
    BY <1>2, <2>3, HandleVoteActionsTyped
  <2> QED
    BY <1>1, <1>6, <2>2, <2>4 DEF OnVote, TypeInv
<1>7. ASSUME NEW n \in Nodes, OnCommit(n)
      PROVE  OneTyped /\ restarts' \in 0..MaxRestarts
  <2>1. PICK m \in Nodes : \E f \in node[m].commits :
           /\ f.block.height >= node[n].height
           /\ node' = [node EXCEPT ![n] = ImportFinalizedBlock(node[n], f)]
    BY <1>7 DEF OnCommit, Peers
  <2>2. PICK f \in node[m].commits :
           /\ f.block.height >= node[n].height
           /\ node' = [node EXCEPT ![n] = ImportFinalizedBlock(node[n], f)]
    BY <2>1
  <2>3. IsBlock(f.block)
    BY <1>2 DEF WellTyped, AreFinalized
  <2>4. WellTyped(ImportFinalizedBlock(node[n], f))
    BY <1>2, <2>2, <2>3, ImportFinalizedBlockTyped
  <2> QED
    BY <1>1, <1>7, <2>2, <2>4 DEF OnCommit, TypeInv
<1>8. ASSUME NEW n \in Nodes, Timeout(n)
      PROVE  OneTyped /\ restarts' \in 0..MaxRestarts
  <2> DEFINE p == EmitPrevote(n, node[n])
             a == AdvanceRound(p)
  <2>1. PICK outcome \in Outcomes : node' = [node EXCEPT ![n] = MaybePropose(n, a, outcome)]
    BY <1>8 DEF Timeout
  <2>2. WellTyped(p) /\ p.round \in {node[n].round, 0}
    BY <1>2, EmitPrevoteTyped
  <2>3. p.round < MaxRound
    <3>1. node[n].round < MaxRound /\ node[n].round \in Nat
      BY <1>2, <1>8 DEF Timeout, WellTyped, NodeType
    <3> QED
      BY <2>2, <3>1, BoundsAssumption
  <2> HIDE DEF p
  <2>4. WellTyped(a)
    BY <2>2, <2>3, AdvanceRoundTyped
  <2> HIDE DEF a
  <2>5. WellTyped(MaybePropose(n, a, outcome))
    BY <2>1, <2>4, MaybeProposeTyped
  <2> QED
    BY <1>1, <1>8, <2>1, <2>5 DEF Timeout, TypeInv
<1> QED
  BY <1>4, <1>5, <1>6, <1>7, <1>8 DEF Next

LEMMA TypeInvInit == Init => TypeInv
<1> SUFFICES ASSUME Init PROVE TypeInv
  OBVIOUS
<1>1. NodeType(BlankNode) /\ SnapCurrent(BlankNode)
  BY DEF BlankNode, NodeType, SnapCurrent, IsNode, Fields
<1>2. /\ BlankNode.height = 1 /\ BlankNode.round = 0
      /\ BlankNode.up = FALSE /\ BlankNode.prevoted = FALSE /\ BlankNode.precommitted = FALSE
      /\ BlankNode.proposal = {} /\ BlankNode.votes = {} /\ BlankNode.ballots = {}
      /\ BlankNode.locked = {} /\ BlankNode.valid = {}
      /\ BlankNode.walLocked = {} /\ BlankNode.walValid = {}
      /\ BlankNode.proposals = {} /\ BlankNode.commits = {} /\ BlankNode.latest = {}
      /\ BlankNode.evidence = {} /\ BlankNode.jailed = {}
  BY DEF BlankNode, Nil
<1>3. BlankNode.height # 0 /\ BlankNode.round <= MaxRound
  BY <1>2, BoundsAssumption
<1>4. /\ IsFlag(BlankNode.up) /\ IsFlag(BlankNode.prevoted) /\ IsFlag(BlankNode.precommitted)
      /\ HashAt(BlankNode.proposal, BlankNode.height, BlankNode.round)
      /\ AreBallots(BlankNode.votes) /\ AreBallots(BlankNode.ballots)
      /\ Below(BlankNode.latest, BlankNode.height)
  BY <1>2, NilTyped
<1>5. /\ IsLock(BlankNode.locked) /\ IsLock(BlankNode.valid)
      /\ IsLock(BlankNode.walLocked) /\ IsLock(BlankNode.walValid)
      /\ AreBlocks(BlankNode.proposals) /\ AreFinalized(BlankNode.commits)
      /\ AreValidators(BlankNode.evidence) /\ BlankNode.jailed \subseteq Validators
  BY <1>2, NilTyped
<1>6. WellTyped(BlankNode)
  BY <1>1, <1>3, <1>4, <1>5 DEF WellTyped
<1> QED
  BY <1>6, BoundsAssumption DEF Init, TypeInv

LEMMA TypeInvNext == TypeInv /\ [Next]_vars => TypeInv'
<1> SUFFICES ASSUME TypeInv, [Next]_vars PROVE TypeInv'
  OBVIOUS
<1>1. CASE UNCHANGED vars
  <2>1. node' = node /\ restarts' = restarts
    BY <1>1 DEF vars
  <2>2. ASSUME NEW n \in Nodes PROVE WellTyped(node'[n])
    BY <2>1 DEF TypeInv
  <2> QED
    BY <2>1, <2>2 DEF TypeInv
<1>2. CASE Next
  <2>1. PICK n \in Nodes : \E s : node' = [node EXCEPT ![n] = s] /\ WellTyped(s)
    BY <1>2, NextTyped DEF OneTyped
  <2>2. PICK s : node' = [node EXCEPT ![n] = s] /\ WellTyped(s)
    BY <2>1
  <2>3. ASSUME NEW m \in Nodes PROVE WellTyped(node'[m])
    <3>1. node'[m] = s \/ node'[m] = node[m]
      BY <2>2 DEF TypeInv
    <3> QED
      BY <2>2, <3>1 DEF TypeInv
  <2>4. DOMAIN node' = Nodes
    BY <2>2 DEF TypeInv
  <2>5. restarts' \in 0..MaxRestarts
    BY <1>2, NextTyped
  <2> QED
    BY <2>3, <2>4, <2>5 DEF TypeInv
<1> QED
  BY <1>1, <1>2

\* The fields of TypeOK from the parts of WellTyped.
LEMMA TypeInvImplies == TypeInv => TypeOK
<1> SUFFICES ASSUME TypeInv, NEW n \in Nodes
             PROVE  LET s == node[n] IN
                    /\ {s.up, s.prevoted, s.precommitted} \subseteq BOOLEAN
                    /\ s.height \in Nat \ {0}
                    /\ s.round \in 0..MaxRound
                    /\ IsHash(s.proposal)
                    /\ \A v \in s.votes \cup s.ballots : IsBallot(v)
                    /\ IsLock(s.locked) /\ IsLock(s.valid)
                    /\ IsLock(s.walLocked) /\ IsLock(s.walValid)
                    /\ \A b \in s.proposals : IsBlock(b)
                    /\ s.jailed \subseteq Validators
                    /\ s.protection \in Nat
                    /\ s.walCommit \in Nat
  BY DEF TypeInv, TypeOK
<1> DEFINE s == node[n]
<1>1. WellTyped(s)
  BY DEF TypeInv
<1> HIDE DEF s
<1>2. {s.up, s.prevoted, s.precommitted} \subseteq BOOLEAN
  BY <1>1 DEF WellTyped, IsFlag
<1>3. s.height \in Nat \ {0} /\ s.round \in 0..MaxRound
  BY <1>1, BoundsAssumption DEF WellTyped, NodeType
<1>4. IsHash(s.proposal) /\ \A v \in s.votes \cup s.ballots : IsBallot(v)
  BY <1>1 DEF WellTyped, HashAt, AreBallots
<1>5. (\A b \in s.proposals : IsBlock(b)) /\ s.protection \in Nat /\ s.walCommit \in Nat
  BY <1>1 DEF WellTyped, AreBlocks, NodeType
<1> QED
  BY <1>1, <1>2, <1>3, <1>4, <1>5 DEF WellTyped, s

(* Type correctness of RoundState, store and outbox for every number of    *)
(* validators: in particular rounds stay within the bound although Timeout *)
(* advances them after a prevote that may already have finalized, a lock   *)
(* is of the round of its block, and a proposal is above its parent also   *)
(* after a recovery that skipped heights.                                  *)
THEOREM TypeCorrect == Spec => []TypeOK
BY TypeInvInit, TypeInvNext, TypeInvImplies, PTL DEF Spec

-----------------------------------------------------------------------------
(* Votes and locks, restarts included: a vote that is counted has been     *)
(* signed, a precommit has a quorum of prevotes behind it, and a lock is   *)
(* given up only for a later one.                                          *)

(* What the other nodes have signed.  While node n takes a step these are  *)
(* fixed, and everything a handler of n counts is one of them or n's own.  *)
Others(n) == UNION {node[m].ballots : m \in Nodes \ {n}}

OtherBlocks(n) == UNION {node[m].proposals : m \in Nodes \ {n}}

NotAfter(v, s) == v.height < s.height \/ (v.height = s.height /\ v.round <= s.round)

OwnBallots(n, s) == \A v \in s.ballots : v.validator = n /\ NotAfter(v, s)

VotesSigned(s, O) == \A v \in s.votes : v \in O \cup s.ballots /\ Current(s, v)

\* A node that has jailed nobody has precommitted on full quorums only.
PolkasSigned(s, O) ==
    s.jailed = {} =>
        \A v \in s.ballots : v.step = "precommit" =>
            Cardinality(SignersIn(O \cup s.ballots, "prevote",
                                  v.height, v.round, v.hash)) >= QuorumOf(N)

OneBlockEach(B) ==
    \A b, c \in B : (b.proposer = c.proposer /\ b.height = c.height) => b = c

ProposalsSigned(n, s, P) ==
    /\ \A b \in s.proposals : b.proposer = n
    /\ OneBlockEach(P \cup s.proposals)
    /\ \A b \in s.proposal : /\ b \in P \cup s.proposals
                             /\ b.proposer = ProposerFor(s, b.height, b.round)

\* The lock in memory is the one the WAL holds for the current height.
LocksLogged(s) ==
    /\ s.locked = {l \in s.walLocked : l.block.height = s.height}
    /\ \A l \in s.walLocked : /\ l.block.height <= s.height
                              /\ l = [round |-> l.round, block |-> l.block]

LocksSigned(s, P) ==
    \A l \in s.locked : /\ l.round <= s.round
                        /\ l.block \in P \cup s.proposals
                        /\ l.block.proposer = ProposerFor(s, l.block.height, l.round)

Sound(n, s, O, P) ==
    /\ OwnBallots(n, s) /\ VotesSigned(s, O) /\ PolkasSigned(s, O)
    /\ ProposalsSigned(n, s, P) /\ LocksLogged(s) /\ LocksSigned(s, P)

\* What others have signed is theirs.
Environment(n, O, P) ==
    /\ \A v \in O : IsBallot(v) /\ v.validator # n
    /\ \A b \in P : b.proposer # n

(* How a handler may move a node: it takes nothing back that it has        *)
(* signed, and gives up a lock only with the height, or for a later one.   *)
KeepsLock(s, t) ==
    \/ t.height > s.height
    \/ /\ t.height = s.height
       /\ \A l \in s.locked : \E k \in t.locked : k = l \/ k.round > l.round

Moves(s, t) ==
    KeepsLock(s, t) /\ s.ballots \subseteq t.ballots /\ s.proposals \subseteq t.proposals

LEMMA MovesTransitive ==
    ASSUME NEW s, NEW t, NEW u, WellTyped(s), WellTyped(t), WellTyped(u),
           Moves(s, t), Moves(t, u)
    PROVE  Moves(s, u)
<1>1. s.height \in Nat /\ t.height \in Nat /\ u.height \in Nat
  BY DEF WellTyped, NodeType
<1>2. /\ \A l \in s.locked : l.round \in Nat
      /\ \A l \in t.locked : l.round \in Nat
      /\ \A l \in u.locked : l.round \in Nat
  BY DEF WellTyped, IsLock, IsBlock
<1>3. KeepsLock(s, u)
  BY <1>1, <1>2 DEF Moves, KeepsLock
<1> QED
  BY <1>3 DEF Moves

LEMMA MovesKept ==
    ASSUME NEW s, NEW t, t.height = s.height, t.locked = s.locked,
           t.ballots = s.ballots, t.proposals = s.proposals
    PROVE  Moves(s, t)
BY DEF Moves, KeepsLock

\* Who proposes, and what a quorum is, depend on who is jailed only.
LEMMA JailDecides ==
    ASSUME NEW s, NEW t, t.jailed = s.jailed
    PROVE  /\ \A h, r : ProposerFor(t, h, r) = ProposerFor(s, h, r)
           /\ Quorum(t) = Quorum(s)
<1>1. ActiveValidators(t) = ActiveValidators(s)
  BY DEF ActiveValidators
<1> QED
  BY <1>1 DEF ProposerFor, Quorum

LEMMA FullQuorum ==
    ASSUME NEW s, s.jailed = {}
    PROVE  Quorum(s) = QuorumOf(N)
<1>1. Validators \ s.jailed = Validators
  OBVIOUS
<1>2. ActiveValidators(s) = Validators
  BY <1>1 DEF ActiveValidators
<1> QED
  BY <1>2, ValidatorsFinite DEF Quorum

LEMMA SoundFrame ==
    ASSUME NEW n, NEW O, NEW P, NEW s, NEW t, Sound(n, s, O, P),
           t.height = s.height, t.round = s.round, t.ballots = s.ballots,
           t.votes = s.votes, t.jailed = s.jailed, t.proposal = s.proposal,
           t.proposals = s.proposals, t.locked = s.locked, t.walLocked = s.walLocked
    PROVE  Sound(n, t, O, P)
<1>1. \A h, r : ProposerFor(t, h, r) = ProposerFor(s, h, r)
  BY JailDecides
<1>2. OwnBallots(n, t) /\ VotesSigned(t, O)
  BY DEF Sound, OwnBallots, NotAfter, VotesSigned, Current
<1>3. PolkasSigned(t, O)
  BY DEF Sound, PolkasSigned
<1>4. ProposalsSigned(n, t, P) /\ LocksLogged(t) /\ LocksSigned(t, P)
  BY <1>1 DEF Sound, ProposalsSigned, LocksLogged, LocksSigned
<1> QED
  BY <1>2, <1>3, <1>4 DEF Sound

-----------------------------------------------------------------------------
(* Quorums of signed votes.                                                *)

LEMMA SignersMonotone ==
    ASSUME NEW A, NEW B, A \subseteq B, \A v \in B : v.validator \in Validators,
           NEW step, NEW h, NEW r, NEW hash
    PROVE  /\ SignersIn(A, step, h, r, hash) \subseteq SignersIn(B, step, h, r, hash)
           /\ SignersIn(B, step, h, r, hash) \in SUBSET Validators
           /\ Cardinality(SignersIn(A, step, h, r, hash)) \in Nat
           /\ Cardinality(SignersIn(B, step, h, r, hash)) \in Nat
           /\ Cardinality(SignersIn(A, step, h, r, hash))
                 <= Cardinality(SignersIn(B, step, h, r, hash))
<1> DEFINE X == {v \in A : /\ v.step = step /\ v.height = h /\ v.round = r
                           /\ v.hash = hash}
           Y == {v \in B : /\ v.step = step /\ v.height = h /\ v.round = r
                           /\ v.hash = hash}
<1>1. X \subseteq Y /\ \A v \in Y : v.validator \in Validators
  OBVIOUS
<1>2. SignersIn(A, step, h, r, hash) = Voters(X) /\ SignersIn(B, step, h, r, hash) = Voters(Y)
  BY DEF SignersIn
<1> HIDE DEF X, Y
<1>3. Cardinality(Voters(Y)) \in Nat
  BY <1>1, VotersMonotone
<1> QED
  BY <1>1, <1>2, <1>3, VotersMonotone

LEMMA QuorumNat == QuorumOf(N) \in Nat
BY NAssumption DEF QuorumOf

\* A quorum has_quorum counts, as long as nobody is jailed, is a quorum of
\* signatures.
LEMMA QuorumSigned ==
    ASSUME NEW n, NEW O, NEW P, Environment(n, O, P),
           NEW s, WellTyped(s), VotesSigned(s, O), s.jailed = {},
           NEW step, NEW hash, HasQuorum(s, step, hash)
    PROVE  Cardinality(SignersIn(O \cup s.ballots, step, s.height, s.round, hash))
              >= QuorumOf(N)
<1> DEFINE X == {v \in s.votes : v.step = step /\ v.hash = hash}
           Y == {v \in O \cup s.ballots : /\ v.step = step /\ v.height = s.height
                                          /\ v.round = s.round /\ v.hash = hash}
<1>1. X \subseteq Y
  BY DEF VotesSigned, Current
<1>2. \A v \in Y : v.validator \in Validators
  BY DEF Environment, WellTyped, AreBallots, IsBallot
<1>3. Cardinality(Voters(X)) >= QuorumOf(N)
  BY FullQuorum DEF HasQuorum
<1>4. SignersIn(O \cup s.ballots, step, s.height, s.round, hash) = Voters(Y)
  BY DEF SignersIn
<1> HIDE DEF X, Y
<1>5. /\ Cardinality(Voters(X)) \in Nat /\ Cardinality(Voters(Y)) \in Nat
      /\ Cardinality(Voters(X)) <= Cardinality(Voters(Y))
  BY <1>1, <1>2, VotersMonotone
<1> QED
  BY <1>3, <1>4, <1>5, QuorumNat

-----------------------------------------------------------------------------
(* Voting.                                                                 *)

LEMMA RecordVoteSound ==
    ASSUME NEW n, NEW O, NEW P, NEW s, WellTyped(s), Sound(n, s, O, P),
           NEW v, v \in O \cup s.ballots, Current(s, v), IsBallot(v)
    PROVE  LET t == RecordVote(s, v)
           IN  Sound(n, t, O, P) /\ Moves(s, t)
<1> DEFINE t == RecordVote(s, v)
<1>1. IsNode(s)
  BY DEF WellTyped, NodeType
<1>2. CASE Conflicts(s, v)
  <2>1. Changes(s, t, {"evidence"})
    BY <1>1, <1>2, RecordVoteChanges
  <2> HIDE DEF t
  <2>2. /\ t.height = s.height /\ t.round = s.round /\ t.ballots = s.ballots
        /\ t.votes = s.votes /\ t.jailed = s.jailed /\ t.proposal = s.proposal
        /\ t.proposals = s.proposals /\ t.locked = s.locked /\ t.walLocked = s.walLocked
    BY <2>1 DEF Changes, Fields
  <2> QED
    BY <2>2, SoundFrame, MovesKept DEF t
<1>3. CASE ~Conflicts(s, v)
  <2> DEFINE lock == {[round |-> s.round, block |-> b] : b \in s.proposal}
  <2>1. /\ Changes(s, t, {"votes", "valid", "walValid", "locked", "walLocked"})
        /\ t.votes = s.votes \cup {v}
        /\ \/ t.locked = s.locked /\ t.walLocked = s.walLocked
           \/ s.proposal # Nil /\ t.locked = lock /\ t.walLocked = lock
    BY <1>1, <1>3, RecordVoteChanges
  <2> HIDE DEF t
  <2>2. /\ t.height = s.height /\ t.round = s.round /\ t.ballots = s.ballots
        /\ t.jailed = s.jailed /\ t.proposal = s.proposal /\ t.proposals = s.proposals
    BY <2>1 DEF Changes, Fields
  <2>3. \A h, r : ProposerFor(t, h, r) = ProposerFor(s, h, r)
    BY <2>2, JailDecides
  <2>4. /\ OwnBallots(n, t) /\ VotesSigned(t, O)
    BY <2>1, <2>2 DEF Sound, OwnBallots, NotAfter, VotesSigned, Current
  <2>5. PolkasSigned(t, O) /\ ProposalsSigned(n, t, P)
    BY <2>2, <2>3 DEF Sound, PolkasSigned, ProposalsSigned
  <2>6. CASE t.locked = s.locked /\ t.walLocked = s.walLocked
    <3>1. LocksLogged(t) /\ LocksSigned(t, P)
      BY <2>2, <2>3, <2>6 DEF Sound, LocksLogged, LocksSigned
    <3> QED
      BY <2>2, <2>4, <2>5, <2>6, <3>1, MovesKept DEF Sound, t
  <2>7. CASE s.proposal # Nil /\ t.locked = lock /\ t.walLocked = lock
    <3>1. PICK b : s.proposal = {b} /\ IsBlock(b) /\ b.height = s.height /\ b.round = s.round
      BY <2>7 DEF WellTyped, HashAt, IsHash
    <3> DEFINE k == [round |-> s.round, block |-> b]
    <3>2. lock = {k}
      BY <3>1
    <3>3. k.round = s.round /\ k.block = b
      OBVIOUS
    <3>4. k = [round |-> k.round, block |-> k.block]
      OBVIOUS
    <3> HIDE DEF k, lock
    <3>5. s.height \in Nat /\ s.round \in Nat
      BY DEF WellTyped, NodeType
    <3>6. LocksLogged(t)
      BY <2>2, <2>7, <3>1, <3>2, <3>3, <3>4, <3>5 DEF LocksLogged
    <3>7. b \in P \cup s.proposals /\ b.proposer = ProposerFor(s, s.height, s.round)
      BY <3>1 DEF Sound, ProposalsSigned
    <3>8. LocksSigned(t, P)
      BY <2>2, <2>3, <2>7, <3>1, <3>2, <3>3, <3>5, <3>7 DEF LocksSigned
    <3>9. ASSUME NEW l \in s.locked PROVE k = l \/ k.round > l.round
      <4>1. /\ l.round <= s.round /\ l.block \in P \cup s.proposals
            /\ l.block.proposer = ProposerFor(s, l.block.height, l.round)
            /\ l.block.height = s.height
            /\ l = [round |-> l.round, block |-> l.block]
        BY DEF Sound, LocksSigned, LocksLogged
      <4>2. l.round \in Nat
        BY DEF WellTyped, IsLock, IsBlock
      <4>3. CASE l.round = s.round
        <5>1. l.block = b
          BY <3>1, <3>7, <4>1, <4>3 DEF Sound, ProposalsSigned, OneBlockEach
        <5> QED
          BY <4>1, <4>3, <5>1 DEF k
      <4>4. CASE l.round < s.round
        BY <3>3, <3>5, <4>2, <4>4
      <4> QED
        BY <3>5, <4>1, <4>2, <4>3, <4>4
    <3>10. Moves(s, t)
      BY <2>2, <2>7, <3>2, <3>9 DEF Moves, KeepsLock
    <3> QED
      BY <2>4, <2>5, <3>6, <3>8, <3>10 DEF Sound, t
  <2> QED
    BY <2>1, <2>6, <2>7
<1> QED
  BY <1>2, <1>3

\* A precommit is signed on a quorum of prevotes that has been counted.
LEMMA SignBallotSound ==
    ASSUME NEW n, NEW O, NEW P, Environment(n, O, P),
           NEW s, WellTyped(s), Sound(n, s, O, P),
           NEW v, IsBallot(v), Current(s, v), v.validator = n,
           v.step = "precommit" => HasQuorum(s, "prevote", v.hash)
    PROVE  LET t == SignBallot(s, v)
           IN  Sound(n, t, O, P) /\ Moves(s, t) /\ v \in t.ballots /\ Current(t, v)
<1> DEFINE t == SignBallot(s, v)
<1>1. IsNode(s)
  BY DEF WellTyped, NodeType
<1>2. /\ Changes(s, t, {"prevoted", "precommitted", "ballots"})
      /\ t.ballots = s.ballots \cup {v}
  BY <1>1, SignBallotChanges
<1> HIDE DEF t
<1>3. /\ t.height = s.height /\ t.round = s.round /\ t.votes = s.votes
      /\ t.jailed = s.jailed /\ t.proposal = s.proposal /\ t.proposals = s.proposals
      /\ t.locked = s.locked /\ t.walLocked = s.walLocked
  BY <1>2 DEF Changes, Fields
<1>4. \A h, r : ProposerFor(t, h, r) = ProposerFor(s, h, r)
  BY <1>3, JailDecides
<1>5. s.height \in Nat /\ s.round \in Nat
  BY DEF WellTyped, NodeType
<1>6. OwnBallots(n, t) /\ VotesSigned(t, O)
  BY <1>2, <1>3, <1>5 DEF Sound, OwnBallots, NotAfter, VotesSigned, Current
<1>7. PolkasSigned(t, O)
  <2> SUFFICES ASSUME s.jailed = {}, NEW w \in t.ballots, w.step = "precommit"
               PROVE  Cardinality(SignersIn(O \cup t.ballots, "prevote",
                                            w.height, w.round, w.hash)) >= QuorumOf(N)
    BY <1>3 DEF PolkasSigned
  <2> DEFINE A == O \cup s.ballots
             B == O \cup t.ballots
  <2>1. A \subseteq B /\ \A x \in B : x.validator \in Validators
    BY <1>2 DEF Environment, WellTyped, AreBallots, IsBallot
  <2>2. Cardinality(SignersIn(O \cup s.ballots, "prevote", w.height, w.round, w.hash))
           >= QuorumOf(N)
    <3>1. CASE w \in s.ballots
      BY <2>1, <3>1 DEF Sound, PolkasSigned
    <3>2. CASE w = v
      BY <3>2, QuorumSigned DEF Sound, Current
    <3> QED
      BY <1>2, <3>1, <3>2
  <2> HIDE DEF A, B
  <2>3. /\ Cardinality(SignersIn(A, "prevote", w.height, w.round, w.hash)) \in Nat
        /\ Cardinality(SignersIn(B, "prevote", w.height, w.round, w.hash)) \in Nat
        /\ Cardinality(SignersIn(A, "prevote", w.height, w.round, w.hash))
              <= Cardinality(SignersIn(B, "prevote", w.height, w.round, w.hash))
    BY <2>1, SignersMonotone
  <2> QED
    BY <2>2, <2>3, QuorumNat DEF A, B
<1>8. ProposalsSigned(n, t, P) /\ LocksLogged(t) /\ LocksSigned(t, P)
  BY <1>3, <1>4 DEF Sound, ProposalsSigned, LocksLogged, LocksSigned
<1>9. Moves(s, t) /\ v \in t.ballots /\ Current(t, v)
  BY <1>2, <1>3 DEF Moves, KeepsLock, Current
<1> QED
  BY <1>6, <1>7, <1>8, <1>9 DEF Sound, t

LEMMA FinalizeSound ==
    ASSUME NEW n, NEW O, NEW P, NEW s, WellTyped(s), Sound(n, s, O, P),
           NEW hash, hash # Nil
    PROVE  LET t == Finalize(s, hash)
           IN  Sound(n, t, O, P) /\ Moves(s, t)
<1> DEFINE t == Finalize(s, hash)
<1>1. IsNode(s)
  BY DEF WellTyped, NodeType
<1>2. t = s \/ FinalizedTo(s, t, hash)
  BY <1>1, FinalizeChanges
<1> HIDE DEF t
<1>3. CASE t = s
  BY <1>3, MovesKept DEF t
<1>4. CASE FinalizedTo(s, t, hash)
  <2>1. /\ t.height = s.height + 1 /\ t.votes = {} /\ t.proposal = {} /\ t.locked = {}
        /\ t.ballots = s.ballots /\ t.proposals = s.proposals /\ t.walLocked = s.walLocked
        /\ t.jailed = {} => s.jailed = {}
    BY <1>4 DEF FinalizedTo, Changes, Fields
  <2>2. s.height \in Nat /\ \A v \in s.ballots : v.height \in Nat
    BY DEF WellTyped, NodeType, AreBallots, IsBallot
  <2>3. \A l \in s.walLocked : l.block.height \in Nat /\ l.block.height <= s.height
    BY DEF WellTyped, IsLock, IsBlock, Sound, LocksLogged
  <2>4. OwnBallots(n, t) /\ VotesSigned(t, O)
    BY <2>1, <2>2 DEF Sound, OwnBallots, NotAfter, VotesSigned
  <2>5. PolkasSigned(t, O) /\ ProposalsSigned(n, t, P)
    BY <2>1 DEF Sound, PolkasSigned, ProposalsSigned
  <2>6. LocksLogged(t) /\ LocksSigned(t, P)
    <3>1. {l \in s.walLocked : l.block.height = t.height} = {}
      BY <2>1, <2>2, <2>3
    <3>2. \A l \in s.walLocked : l.block.height <= t.height
      BY <2>1, <2>2, <2>3
    <3> QED
      BY <2>1, <3>1, <3>2 DEF Sound, LocksLogged, LocksSigned
  <2>7. Moves(s, t)
    BY <2>1, <2>2 DEF Moves, KeepsLock
  <2> QED
    BY <2>4, <2>5, <2>6, <2>7 DEF Sound, t
<1> QED
  BY <1>2, <1>3, <1>4

\* The quorum record_vote reports is there once the vote is recorded.
LEMMA QuorumRecorded ==
    ASSUME NEW s, IsNode(s), NEW v, QuorumReached(s, v)
    PROVE  HasQuorum(RecordVote(s, v), v.step, v.hash)
<1> DEFINE t == RecordVote(s, v)
           u == [s EXCEPT !.votes = @ \cup {v}]
<1>1. ~Conflicts(s, v) /\ HasQuorum(u, v.step, v.hash)
  BY DEF QuorumReached
<1>2. u.votes = s.votes \cup {v} /\ u.jailed = s.jailed
  BY DEF IsNode, Fields
<1>3. t.votes = s.votes \cup {v} /\ t.jailed = s.jailed
  <2>1. /\ Changes(s, t, {"votes", "valid", "walValid", "locked", "walLocked"})
        /\ t.votes = s.votes \cup {v}
    BY <1>1, RecordVoteChanges
  <2> QED
    BY <2>1 DEF Changes, Fields
<1> HIDE DEF t, u
<1>4. Quorum(t) = Quorum(u)
  BY <1>2, <1>3, JailDecides
<1>5. HasQuorum(t, v.step, v.hash)
  BY <1>1, <1>2, <1>3, <1>4 DEF HasQuorum
<1> QED
  BY <1>5 DEF t

(* handle_vote_actions as a chain of at most three moves: the vote is      *)
(* recorded, the node's own precommit is signed and recorded, the block is *)
(* finalized.                                                              *)
Precommits(n, a, hash) ==
    /\ HasQuorum(a, "prevote", hash)
    /\ ~a.precommitted /\ LocalActive(n, a)

Precommitted(n, a, hash) ==
    LET v == Ballot(n, a, "precommit", hash)
    IN  RecordVote(SignBallot(a, v), v)

LEMMA HandleVoteActionsSteps ==
    ASSUME NEW n, NEW s, IsNode(s), NEW v
    PROVE  LET a == RecordVote(s, v)
               t == HandleVoteActions(n, s, v)
           IN  \E b : /\ \/ b = a
                         \/ Precommits(n, a, v.hash) /\ b = Precommitted(n, a, v.hash)
                      /\ \/ t = b
                         \/ /\ v.hash # Nil /\ HasQuorum(b, "precommit", v.hash)
                            /\ t = Finalize(b, v.hash)
<1> DEFINE a == RecordVote(s, v)
           p == Ballot(n, a, "precommit", v.hash)
           signed == SignBallot(a, p)
           c == RecordVote(signed, p)
           t == HandleVoteActions(n, s, v)
           casts == /\ v.step = "prevote"
                    /\ QuorumReached(s, v)
                    /\ ~s.precommitted
                    /\ LocalActive(n, s)
           voted == IF casts THEN c ELSE a
           final == /\ v.hash # Nil
                    /\ \/ v.step = "precommit" /\ QuorumReached(s, v)
                       \/ casts /\ QuorumReached(signed, p)
<1>1. t = IF final THEN Finalize(voted, v.hash) ELSE voted
  BY DEF HandleVoteActions
<1>2. IsNode(a) /\ a.precommitted = s.precommitted /\ a.jailed = s.jailed
  <2>1. Changes(s, a, {"evidence", "votes", "valid", "walValid", "locked", "walLocked"})
    BY RecordVoteChanges DEF Changes
  <2> QED
    BY <2>1 DEF Changes, Fields
<1>3. p.step = "precommit" /\ p.hash = v.hash
  BY DEF Ballot
<1>4. QuorumReached(s, v) => HasQuorum(a, v.step, v.hash)
  BY QuorumRecorded
<1>5. c = Precommitted(n, a, v.hash)
  BY DEF Precommitted
<1> HIDE DEF a, p
<1>6. IsNode(signed)
  BY <1>2, SignBallotChanges DEF Changes
<1> HIDE DEF signed
<1>7. QuorumReached(signed, p) => HasQuorum(c, "precommit", v.hash)
  BY <1>3, <1>6, QuorumRecorded
<1>8. casts => Precommits(n, a, v.hash)
  BY <1>2, <1>4 DEF Precommits, LocalActive
<1> HIDE DEF c, t
<1>9. CASE casts
  <2>1. final => v.hash # Nil /\ HasQuorum(c, "precommit", v.hash)
    BY <1>7, <1>9
  <2>2. t = c \/ (final /\ t = Finalize(c, v.hash))
    BY <1>1, <1>9
  <2> HIDE DEF casts, final
  <2> QED
    BY <1>5, <1>8, <1>9, <2>1, <2>2 DEF a, t
<1>10. CASE ~casts
  <2>1. final => v.hash # Nil /\ HasQuorum(a, "precommit", v.hash)
    BY <1>4, <1>10
  <2>2. t = a \/ (final /\ t = Finalize(a, v.hash))
    BY <1>1, <1>10
  <2> HIDE DEF casts, final
  <2> QED
    BY <2>1, <2>2 DEF a, t
<1> QED
  BY <1>9, <1>10

LEMMA PrecommittedSound ==
    ASSUME NEW n, NEW O, NEW P, Environment(n, O, P),
           NEW a, WellTyped(a), Sound(n, a, O, P),
           NEW hash, IsHash(hash), Precommits(n, a, hash)
    PROVE  LET b == Precommitted(n, a, hash)
           IN  WellTyped(b) /\ Sound(n, b, O, P) /\ Moves(a, b)
<1> DEFINE v == Ballot(n, a, "precommit", hash)
           signed == SignBallot(a, v)
           b == RecordVote(signed, v)
<1>1. /\ v.step = "precommit" /\ v.hash = hash /\ v.validator = n
      /\ v.height = a.height /\ v.round = a.round
  BY DEF Ballot
<1>2. IsBallot(v)
  BY BallotTyped DEF Precommits, LocalActive
<1>3. b = Precommitted(n, a, hash)
  BY DEF Precommitted
<1> HIDE DEF v
<1>4. WellTyped(signed)
  BY <1>2, SignBallotTyped
<1>5. Sound(n, signed, O, P) /\ Moves(a, signed) /\ v \in signed.ballots /\ Current(signed, v)
  BY <1>1, <1>2, SignBallotSound DEF Precommits, Current
<1> HIDE DEF signed
<1>6. WellTyped(b)
  BY <1>2, <1>4, RecordVoteTyped
<1>7. Sound(n, b, O, P) /\ Moves(signed, b)
  BY <1>2, <1>4, <1>5, RecordVoteSound
<1> HIDE DEF b
<1>8. Moves(a, b)
  BY <1>4, <1>5, <1>6, <1>7, MovesTransitive
<1> QED
  BY <1>3, <1>6, <1>7, <1>8

LEMMA HandleVoteActionsSound ==
    ASSUME NEW n, NEW O, NEW P, Environment(n, O, P),
           NEW s, WellTyped(s), Sound(n, s, O, P),
           NEW v, v \in O \cup s.ballots, Current(s, v), IsBallot(v)
    PROVE  LET t == HandleVoteActions(n, s, v)
           IN  Sound(n, t, O, P) /\ Moves(s, t)
<1> DEFINE a == RecordVote(s, v)
           t == HandleVoteActions(n, s, v)
<1>1. IsNode(s) /\ IsHash(v.hash)
  BY DEF WellTyped, NodeType, IsBallot
<1>2. PICK b : /\ \/ b = a
                  \/ Precommits(n, a, v.hash) /\ b = Precommitted(n, a, v.hash)
               /\ \/ t = b
                  \/ v.hash # Nil /\ t = Finalize(b, v.hash)
  BY <1>1, HandleVoteActionsSteps
<1>3. WellTyped(a) /\ WellTyped(t)
  BY RecordVoteTyped, HandleVoteActionsTyped
<1>4. Sound(n, a, O, P) /\ Moves(s, a)
  BY RecordVoteSound
<1> HIDE DEF a, t
<1>5. WellTyped(b) /\ Sound(n, b, O, P) /\ Moves(s, b)
  <2>1. CASE b = a
    BY <1>3, <1>4, <2>1
  <2>2. CASE Precommits(n, a, v.hash) /\ b = Precommitted(n, a, v.hash)
    <3>1. WellTyped(b) /\ Sound(n, b, O, P) /\ Moves(a, b)
      BY <1>1, <1>3, <1>4, <2>2, PrecommittedSound
    <3> QED
      BY <1>3, <1>4, <3>1, MovesTransitive
  <2> QED
    BY <1>2, <2>1, <2>2
<1>6. CASE t = b
  BY <1>5, <1>6 DEF t
<1>7. CASE v.hash # Nil /\ t = Finalize(b, v.hash)
  <2>1. Sound(n, t, O, P) /\ Moves(b, t)
    BY <1>5, <1>7, FinalizeSound
  <2>2. Moves(s, t)
    BY <1>3, <1>5, <2>1, MovesTransitive
  <2> QED
    BY <2>1, <2>2 DEF t
<1> QED
  BY <1>2, <1>6, <1>7

LEMMA EmitPrevoteSound ==
    ASSUME NEW n, NEW O, NEW P, Environment(n, O, P),
           NEW s, WellTyped(s), Sound(n, s, O, P)
    PROVE  LET t == EmitPrevote(n, s)
           IN  Sound(n, t, O, P) /\ Moves(s, t)
<1> DEFINE hash == PrevoteHash(s)
           v == Ballot(n, s, "prevote", hash)
           signed == SignBallot(s, v)
           t == HandleVoteActions(n, signed, v)
<1>1. \/ EmitPrevote(n, s) = s
      \/ n \in Validators /\ EmitPrevote(n, s) = t
  BY DEF EmitPrevote, LocalActive
<1>2. CASE EmitPrevote(n, s) = s
  BY <1>2, MovesKept
<1>3. CASE n \in Validators /\ EmitPrevote(n, s) = t
  <2>1. IsHash(hash)
    BY DEF PrevoteHash, WellTyped, HashAt, IsHash
  <2> HIDE DEF hash
  <2>2. IsBallot(v)
    BY <1>3, <2>1, BallotTyped
  <2>3. /\ v.step = "prevote" /\ v.validator = n
        /\ v.height = s.height /\ v.round = s.round
    BY DEF Ballot
  <2> HIDE DEF v
  <2>4. WellTyped(signed)
    BY <2>2, SignBallotTyped
  <2>5. Sound(n, signed, O, P) /\ Moves(s, signed) /\ v \in signed.ballots /\ Current(signed, v)
    BY <2>2, <2>3, SignBallotSound DEF Current
  <2> HIDE DEF signed
  <2>6. WellTyped(t)
    BY <2>2, <2>4, HandleVoteActionsTyped
  <2>7. Sound(n, t, O, P) /\ Moves(signed, t)
    BY <2>2, <2>4, <2>5, HandleVoteActionsSound
  <2> HIDE DEF t
  <2>8. Moves(s, t)
    BY <2>4, <2>5, <2>6, <2>7, MovesTransitive
  <2> QED
    BY <1>3, <2>7, <2>8
<1> QED
  BY <1>1, <1>2, <1>3

-----------------------------------------------------------------------------
(* Rounds, proposals, imports and restarts.                                *)

LEMMA AdvanceRoundSound ==
    ASSUME NEW n, NEW O, NEW P, NEW s, WellTyped(s), Sound(n, s, O, P)
    PROVE  LET t == AdvanceRound(s)
           IN  Sound(n, t, O, P) /\ Moves(s, t)
<1> DEFINE t == AdvanceRound(s)
<1>1. IsNode(s) /\ s.height \in Nat /\ s.round \in Nat
  BY DEF WellTyped, NodeType
<1>2. /\ Changes(s, t, {"proposal", "votes", "prevoted", "precommitted", "round", "snap"})
      /\ t.round = s.round + 1 /\ t.proposal = {} /\ t.votes = {}
  BY <1>1, AdvanceRoundChanges
<1> HIDE DEF t
<1>3. /\ t.height = s.height /\ t.ballots = s.ballots /\ t.jailed = s.jailed
      /\ t.proposals = s.proposals /\ t.locked = s.locked /\ t.walLocked = s.walLocked
  BY <1>2 DEF Changes, Fields
<1>4. \A h, r : ProposerFor(t, h, r) = ProposerFor(s, h, r)
  BY <1>3, JailDecides
<1>5. \A v \in s.ballots : v.round \in Nat
  BY DEF WellTyped, AreBallots, IsBallot
<1>6. \A l \in s.locked : l.round \in Nat
  BY DEF WellTyped, IsLock, IsBlock
<1>7. OwnBallots(n, t) /\ VotesSigned(t, O)
  BY <1>1, <1>2, <1>3, <1>5 DEF Sound, OwnBallots, NotAfter, VotesSigned
<1>8. PolkasSigned(t, O) /\ ProposalsSigned(n, t, P) /\ LocksLogged(t)
  BY <1>2, <1>3 DEF Sound, PolkasSigned, ProposalsSigned, LocksLogged
<1>9. LocksSigned(t, P)
  BY <1>1, <1>2, <1>3, <1>4, <1>6 DEF Sound, LocksSigned
<1>10. Moves(s, t)
  BY <1>3, MovesKept
<1> QED
  BY <1>7, <1>8, <1>9, <1>10 DEF Sound, t

LEMMA OfferedSound ==
    ASSUME NEW n, NEW O, NEW P, Environment(n, O, P),
           NEW s, WellTyped(s), Protected(s), Sound(n, s, O, P),
           MayPropose(n, s), NEW payload \in Payloads
    PROVE  LET t == Offered(n, s, payload)
           IN  Sound(n, t, O, P) /\ Moves(s, t)
<1> DEFINE b == NewBlock(n, s, payload)
           t == Offered(n, s, payload)
<1>1. IsNode(s) /\ s.height \in Nat /\ s.protection \in Nat
  BY DEF WellTyped, NodeType
<1>2. /\ b.height = s.height /\ b.round = s.round /\ b.proposer = n
  BY NewBlockFields
<1>3. /\ Changes(s, t, {"protection", "proposal", "proposals"})
      /\ t.proposal = {b} /\ t.proposals = s.proposals \cup {b}
  BY <1>1, OfferedChanges
<1> HIDE DEF b, t
<1>4. /\ t.height = s.height /\ t.round = s.round /\ t.ballots = s.ballots
      /\ t.votes = s.votes /\ t.jailed = s.jailed
      /\ t.locked = s.locked /\ t.walLocked = s.walLocked
  BY <1>3 DEF Changes, Fields
<1>5. \A h, r : ProposerFor(t, h, r) = ProposerFor(s, h, r)
  BY <1>4, JailDecides
<1>6. \A c \in s.proposals : c.height # s.height
  BY <1>1 DEF Protected, MayPropose, WellTyped, NodeType, BlockType
<1>7. OneBlockEach(P \cup t.proposals)
  <2>1. \A c \in P \cup s.proposals : ~(c.proposer = n /\ c.height = s.height)
    BY <1>6 DEF Environment
  <2> QED
    BY <1>2, <1>3, <2>1 DEF Sound, ProposalsSigned, OneBlockEach
<1>8. ProposalsSigned(n, t, P)
  <2>1. b.proposer = ProposerFor(t, b.height, b.round)
    BY <1>2, <1>5 DEF MayPropose
  <2>2. \A c \in t.proposals : c.proposer = n
    BY <1>2, <1>3 DEF Sound, ProposalsSigned
  <2> QED
    BY <1>3, <1>7, <2>1, <2>2 DEF ProposalsSigned
<1>9. OwnBallots(n, t) /\ VotesSigned(t, O)
  BY <1>4 DEF Sound, OwnBallots, NotAfter, VotesSigned, Current
<1>10. PolkasSigned(t, O) /\ LocksLogged(t) /\ LocksSigned(t, P)
  <2>1. PolkasSigned(t, O)
    BY <1>4 DEF Sound, PolkasSigned
  <2>2. LocksLogged(t)
    BY <1>4 DEF Sound, LocksLogged
  <2>3. LocksSigned(t, P)
    BY <1>3, <1>4, <1>5 DEF Sound, LocksSigned
  <2> QED
    BY <2>1, <2>2, <2>3
<1>11. Moves(s, t)
  BY <1>3, <1>4 DEF Moves, KeepsLock
<1> QED
  BY <1>8, <1>9, <1>10, <1>11 DEF Sound, t

LEMMA MaybeProposeSound ==
    ASSUME NEW n, NEW O, NEW P, Environment(n, O, P),
           NEW s, WellTyped(s), Protected(s), Sound(n, s, O, P),
           NEW outcome \in Outcomes
    PROVE  LET t == MaybePropose(n, s, outcome)
           IN  Sound(n, t, O, P) /\ Moves(s, t)
<1> DEFINE t == MaybePropose(n, s, outcome)
<1>1. CASE t \in {s, Spent(s), Halted(s)}
  <2>1. IsNode(s)
    BY DEF WellTyped, NodeType
  <2>2. t = s \/ Changes(s, t, {"protection", "up"})
    BY <1>1, <2>1, SpentChanges DEF Changes
  <2> HIDE DEF t
  <2>3. /\ t.height = s.height /\ t.round = s.round /\ t.ballots = s.ballots
        /\ t.votes = s.votes /\ t.jailed = s.jailed /\ t.proposal = s.proposal
        /\ t.proposals = s.proposals /\ t.locked = s.locked /\ t.walLocked = s.walLocked
    BY <2>2 DEF Changes, Fields
  <2> QED
    BY <2>3, SoundFrame, MovesKept DEF t
<1>2. CASE /\ MayPropose(n, s) /\ outcome \in Payloads
           /\ t = EmitPrevote(n, Offered(n, s, outcome))
  <2> DEFINE o == Offered(n, s, outcome)
  <2>1. WellTyped(o)
    BY <1>2, OfferedTyped DEF MayPropose, LocalActive
  <2>2. Sound(n, o, O, P) /\ Moves(s, o)
    BY <1>2, OfferedSound
  <2>3. t = EmitPrevote(n, o)
    BY <1>2
  <2> HIDE DEF o
  <2>4. WellTyped(t) /\ Sound(n, t, O, P) /\ Moves(o, t)
    BY <2>1, <2>2, <2>3, EmitPrevoteTyped, EmitPrevoteSound
  <2> HIDE DEF t
  <2>5. Moves(s, t)
    BY <2>1, <2>2, <2>4, MovesTransitive
  <2> QED
    BY <2>4, <2>5 DEF t
<1> QED
  BY <1>1, <1>2, MaybeProposeSteps

LEMMA HeldSound ==
    ASSUME NEW n, NEW O, NEW P, NEW s, WellTyped(s), Sound(n, s, O, P),
           NEW b \in P, ValidProposal(s, b)
    PROVE  LET t == Held(s, b)
           IN  Sound(n, t, O, P) /\ Moves(s, t)
<1> DEFINE t == Held(s, b)
<1>1. Changes(s, t, {"proposal"}) /\ t.proposal = {b}
  BY HeldChanges DEF WellTyped, NodeType
<1> HIDE DEF t
<1>2. /\ t.height = s.height /\ t.round = s.round /\ t.ballots = s.ballots
      /\ t.votes = s.votes /\ t.jailed = s.jailed /\ t.proposals = s.proposals
      /\ t.locked = s.locked /\ t.walLocked = s.walLocked
  BY <1>1 DEF Changes, Fields
<1>3. \A h, r : ProposerFor(t, h, r) = ProposerFor(s, h, r)
  BY <1>2, JailDecides
<1>4. OwnBallots(n, t) /\ VotesSigned(t, O)
  BY <1>2 DEF Sound, OwnBallots, NotAfter, VotesSigned, Current
<1>5. PolkasSigned(t, O)
  BY <1>2 DEF Sound, PolkasSigned
<1>6. LocksLogged(t)
  BY <1>2 DEF Sound, LocksLogged
<1>7. LocksSigned(t, P)
  BY <1>2, <1>3 DEF Sound, LocksSigned
<1>8. ProposalsSigned(n, t, P)
  <2>1. b.proposer = ProposerFor(t, b.height, b.round)
    BY <1>3 DEF ValidProposal
  <2> QED
    BY <1>1, <1>2, <2>1 DEF Sound, ProposalsSigned
<1>9. Moves(s, t)
  BY <1>2, MovesKept
<1> QED
  BY <1>4, <1>5, <1>6, <1>7, <1>8, <1>9 DEF Sound, t

LEMMA ReceiveProposalSound ==
    ASSUME NEW n, NEW O, NEW P, Environment(n, O, P),
           NEW s, WellTyped(s), Sound(n, s, O, P),
           NEW b \in P, IsBlock(b), Current(s, b), ValidProposal(s, b)
    PROVE  LET t == ReceiveProposal(n, s, b)
           IN  Sound(n, t, O, P) /\ Moves(s, t)
<1> DEFINE t == ReceiveProposal(n, s, b)
           held == Held(s, b)
           accused == Accused(s, b)
<1>1. t = EmitPrevote(n, held) \/ t = s \/ t = accused
  BY ReceiveProposalSteps
<1>2. WellTyped(held) /\ WellTyped(t)
  BY HeldTyped, ReceiveProposalTyped
<1>3. Changes(s, accused, {"evidence"})
  BY HeldChanges DEF WellTyped, NodeType
<1>4. Sound(n, held, O, P) /\ Moves(s, held)
  BY HeldSound
<1> HIDE DEF t, held, accused
<1>5. CASE t = EmitPrevote(n, held)
  <2>1. Sound(n, t, O, P) /\ Moves(held, t)
    BY <1>2, <1>4, <1>5, EmitPrevoteSound
  <2>2. Moves(s, t)
    BY <1>2, <1>4, <2>1, MovesTransitive
  <2> QED
    BY <2>1, <2>2 DEF t
<1>6. CASE t = s
  BY <1>6, MovesKept DEF t
<1>7. CASE t = accused
  <2>1. /\ t.height = s.height /\ t.round = s.round /\ t.ballots = s.ballots
        /\ t.votes = s.votes /\ t.jailed = s.jailed /\ t.proposal = s.proposal
        /\ t.proposals = s.proposals /\ t.locked = s.locked /\ t.walLocked = s.walLocked
    BY <1>3, <1>7 DEF Changes, Fields
  <2> QED
    BY <2>1, SoundFrame, MovesKept DEF t
<1> QED
  BY <1>1, <1>5, <1>6, <1>7

LEMMA RecoveredChanges ==
    ASSUME NEW s, IsNode(s)
    PROVE  LET t == PersistSnapshot(Recovered(s))
               rec == RecoverSnapshot(s)
           IN  /\ Changes(s, t, {"proposal", "votes", "prevoted", "precommitted", "up",
                                 "evidence", "height", "round", "locked", "valid", "snap"})
               /\ t.height = rec.height /\ t.round = rec.round
               /\ t.locked = rec.locked /\ t.valid = rec.valid /\ t.evidence = {}
               /\ t.proposal = {} /\ t.votes = {}
               /\ t.prevoted = FALSE /\ t.precommitted = FALSE
<1> DEFINE rec == RecoverSnapshot(s)
           r == ResetRound(s)
           a == [r EXCEPT !.up = TRUE, !.evidence = {},
                          !.height = rec.height, !.round = rec.round,
                          !.locked = rec.locked, !.valid = rec.valid]
           t == PersistSnapshot(a)
<1>1. t = PersistSnapshot(Recovered(s))
  BY DEF Recovered
<1>2. /\ Changes(s, r, {"proposal", "votes", "prevoted", "precommitted"})
      /\ r.proposal = {} /\ r.votes = {}
      /\ r.prevoted = FALSE /\ r.precommitted = FALSE
  BY ResetRoundChanges
<1> HIDE DEF rec, r
<1>3. /\ Changes(r, a, {"up", "evidence", "height", "round", "locked", "valid"})
      /\ a.evidence = {} /\ a.height = rec.height /\ a.round = rec.round
      /\ a.locked = rec.locked /\ a.valid = rec.valid
  BY <1>2 DEF Changes, IsNode, Fields
<1> HIDE DEF a
<1>4. Changes(a, t, {"snap"})
  BY <1>3, PersistSnapshotChanges DEF Changes
<1> HIDE DEF t
<1>5. /\ Changes(s, t, {"proposal", "votes", "prevoted", "precommitted", "up",
                        "evidence", "height", "round", "locked", "valid", "snap"})
      /\ t.height = rec.height /\ t.round = rec.round
      /\ t.locked = rec.locked /\ t.valid = rec.valid /\ t.evidence = {}
      /\ t.proposal = {} /\ t.votes = {}
      /\ t.prevoted = FALSE /\ t.precommitted = FALSE
  BY <1>2, <1>3, <1>4 DEF Changes, Fields
<1> QED
  BY <1>1, <1>5 DEF rec

LEMMA RecoveredSound ==
    ASSUME NEW n, NEW O, NEW P, NEW s, WellTyped(s), Sound(n, s, O, P)
    PROVE  LET t == PersistSnapshot(Recovered(s))
           IN  Sound(n, t, O, P) /\ Moves(s, t)
<1> DEFINE t == PersistSnapshot(Recovered(s))
           rec == RecoverSnapshot(s)
<1>1. NodeType(s) /\ SnapCurrent(s) /\ IsNode(s) /\ s.height \in Nat /\ s.round \in Nat
  BY DEF WellTyped, NodeType
<1>2. Advances(s, t)
  BY <1>1, RecoveredAdvances
<1>3. /\ Changes(s, t, {"proposal", "votes", "prevoted", "precommitted", "up",
                        "evidence", "height", "round", "locked", "valid", "snap"})
      /\ t.height = rec.height /\ t.locked = rec.locked
      /\ t.proposal = {} /\ t.votes = {}
  BY <1>1, RecoveredChanges
<1>4. rec.locked = {l \in s.walLocked : l.block.height = rec.height}
  BY DEF RecoverSnapshot
<1> HIDE DEF t, rec
<1>5. /\ t.ballots = s.ballots /\ t.proposals = s.proposals
      /\ t.walLocked = s.walLocked /\ t.jailed = s.jailed
  BY <1>3 DEF Changes, Fields
<1>6. /\ t.height \in Nat /\ t.round \in Nat
      /\ t.height > s.height \/ (t.height = s.height /\ t.round >= s.round)
  BY <1>2 DEF Advances, NodeType, Later
<1>7. /\ \A v \in s.ballots : v.height \in Nat /\ v.round \in Nat
      /\ \A l \in s.walLocked : l.block.height \in Nat /\ l.round \in Nat
  BY DEF WellTyped, AreBallots, IsBallot, IsLock, IsBlock
<1>8. \A h, r : ProposerFor(t, h, r) = ProposerFor(s, h, r)
  BY <1>5, JailDecides
<1>9. OwnBallots(n, t) /\ VotesSigned(t, O)
  BY <1>1, <1>3, <1>5, <1>6, <1>7 DEF Sound, OwnBallots, NotAfter, VotesSigned
<1>10. PolkasSigned(t, O) /\ ProposalsSigned(n, t, P)
  BY <1>3, <1>5 DEF Sound, PolkasSigned, ProposalsSigned
<1>11. \A l \in s.walLocked : /\ l.block.height <= s.height
                              /\ l = [round |-> l.round, block |-> l.block]
  BY DEF Sound, LocksLogged
<1>12. LocksLogged(t)
  <2>1. \A l \in s.walLocked : l.block.height <= t.height
    BY <1>1, <1>6, <1>7, <1>11
  <2> QED
    BY <1>3, <1>4, <1>5, <1>11, <2>1 DEF LocksLogged
<1>13. t.locked = {} \/ (t.height = s.height /\ t.locked = s.locked)
  <2>1. CASE t.height = s.height
    BY <1>3, <1>4, <2>1 DEF Sound, LocksLogged
  <2>2. CASE t.height > s.height
    BY <1>1, <1>3, <1>4, <1>6, <1>7, <1>11, <2>2
  <2> QED
    BY <1>6, <2>1, <2>2
<1>14. LocksSigned(t, P)
  <2> SUFFICES ASSUME NEW l \in t.locked, t.height = s.height, t.locked = s.locked
               PROVE  /\ l.round <= t.round
                      /\ l.block \in P \cup t.proposals
                      /\ l.block.proposer = ProposerFor(t, l.block.height, l.round)
    BY <1>13 DEF LocksSigned
  <2>1. /\ l.round <= s.round /\ l.block \in P \cup s.proposals
        /\ l.block.proposer = ProposerFor(s, l.block.height, l.round)
    BY DEF Sound, LocksSigned
  <2>2. l.round \in Nat
    BY <1>3, <1>4, <1>7
  <2> QED
    BY <1>1, <1>5, <1>6, <1>8, <2>1, <2>2
<1>15. Moves(s, t)
  <2>1. KeepsLock(s, t)
    <3>1. CASE t.height > s.height
      BY <3>1 DEF KeepsLock
    <3>2. CASE t.height = s.height
      <4>1. t.locked = s.locked
        BY <1>3, <1>4, <3>2 DEF Sound, LocksLogged
      <4> QED
        BY <3>2, <4>1 DEF KeepsLock
    <3> QED
      BY <1>6, <3>1, <3>2
  <2> QED
    BY <1>5, <2>1 DEF Moves
<1> QED
  BY <1>9, <1>10, <1>12, <1>14, <1>15 DEF Sound, t

\* t is what import leaves of s when the block of f extends its chain.
ImportedTo(s, t, f) ==
    /\ f.block.parent = s.latest
    /\ Changes(s, t, {"proposal", "votes", "prevoted", "precommitted", "height", "round",
                      "locked", "valid", "snap", "walCommit", "blocks", "latest"})
    /\ t.height = f.block.height + 1 /\ t.round = 0
    /\ t.proposal = {} /\ t.votes = {} /\ t.locked = {} /\ t.valid = {}
    /\ t.prevoted = FALSE /\ t.precommitted = FALSE
    /\ t.latest = {f.block}
    /\ t.blocks = {g \in s.blocks : g.block.height # f.block.height} \cup {f}

LEMMA ImportFinalizedBlockSteps ==
    ASSUME NEW s, IsNode(s), NEW f
    PROVE  LET t == ImportFinalizedBlock(s, f)
           IN  Changes(s, t, {"walCommit"}) \/ ImportedTo(s, t, f)
<1> DEFINE h == f.block.height
           w == WalCommitFinalized(s, h)
           c == CommitBlock(w, f)
           next == h + 1
           t == AdvanceHeight(c, next)
<1>1. ImportFinalizedBlock(s, f) = IF f.block.parent # s.latest THEN w ELSE t
  BY DEF ImportFinalizedBlock
<1>2. Changes(s, w, {"walCommit"})
  BY WalCommitFinalizedChanges
<1> HIDE DEF w
<1>3. /\ Changes(w, c, {"blocks", "latest"}) /\ c.latest = {f.block}
      /\ c.blocks = {g \in w.blocks : g.block.height # f.block.height} \cup {f}
  <2>1. IsNode(w)
    BY <1>2 DEF Changes
  <2> QED
    BY <2>1, CommitBlockChanges
<1> HIDE DEF c
<1>4. AtHeight(c, t, next)
  <2>1. IsNode(c)
    BY <1>3 DEF Changes
  <2> HIDE DEF next
  <2> QED
    BY <2>1, AdvanceHeightChanges
<1> HIDE DEF t
<1>5. CASE f.block.parent # s.latest
  BY <1>1, <1>2, <1>5
<1>6. CASE f.block.parent = s.latest
  <2>1. /\ Changes(s, t, {"proposal", "votes", "prevoted", "precommitted", "height", "round",
                          "locked", "valid", "snap", "walCommit", "blocks", "latest"})
        /\ t.latest = {f.block}
        /\ t.blocks = {g \in s.blocks : g.block.height # f.block.height} \cup {f}
    BY <1>2, <1>3, <1>4 DEF AtHeight, Changes, Fields
  <2>2. ImportedTo(s, t, f)
    BY <1>4, <1>6, <2>1 DEF ImportedTo, AtHeight
  <2> QED
    BY <1>1, <1>6, <2>2
<1> QED
  BY <1>5, <1>6

LEMMA ImportFinalizedBlockSound ==
    ASSUME NEW n, NEW O, NEW P, NEW s, WellTyped(s), Sound(n, s, O, P),
           NEW f, IsBlock(f.block), f.block.height >= s.height
    PROVE  LET t == ImportFinalizedBlock(s, f)
           IN  Sound(n, t, O, P) /\ Moves(s, t)
<1> DEFINE t == ImportFinalizedBlock(s, f)
<1>1. IsNode(s) /\ s.height \in Nat /\ f.block.height \in Nat
  BY DEF WellTyped, NodeType, IsBlock
<1>2. Changes(s, t, {"walCommit"}) \/ ImportedTo(s, t, f)
  BY <1>1, ImportFinalizedBlockSteps
<1> HIDE DEF t
<1>3. CASE Changes(s, t, {"walCommit"})
  <2>1. /\ t.height = s.height /\ t.round = s.round /\ t.ballots = s.ballots
        /\ t.votes = s.votes /\ t.jailed = s.jailed /\ t.proposal = s.proposal
        /\ t.proposals = s.proposals /\ t.locked = s.locked /\ t.walLocked = s.walLocked
    BY <1>3 DEF Changes, Fields
  <2> QED
    BY <2>1, SoundFrame, MovesKept DEF t
<1>4. CASE ImportedTo(s, t, f)
  <2>1. /\ t.height = f.block.height + 1 /\ t.votes = {} /\ t.proposal = {} /\ t.locked = {}
        /\ t.ballots = s.ballots /\ t.proposals = s.proposals /\ t.walLocked = s.walLocked
        /\ t.jailed = s.jailed
    BY <1>4 DEF ImportedTo, Changes, Fields
  <2>2. /\ \A v \in s.ballots : v.height \in Nat
        /\ \A l \in s.walLocked : l.block.height \in Nat /\ l.block.height <= s.height
    BY DEF WellTyped, AreBallots, IsBallot, IsLock, IsBlock, Sound, LocksLogged
  <2>3. t.height \in Nat /\ t.height > s.height
    BY <1>1, <2>1
  <2>4. OwnBallots(n, t) /\ VotesSigned(t, O)
    BY <1>1, <2>1, <2>2, <2>3 DEF Sound, OwnBallots, NotAfter, VotesSigned
  <2>5. PolkasSigned(t, O) /\ ProposalsSigned(n, t, P)
    BY <2>1 DEF Sound, PolkasSigned, ProposalsSigned
  <2>6. LocksLogged(t) /\ LocksSigned(t, P)
    <3>1. {l \in s.walLocked : l.block.height = t.height} = {}
      BY <1>1, <2>2, <2>3
    <3>2. \A l \in s.walLocked : l.block.height <= t.height
      BY <1>1, <2>2, <2>3
    <3> QED
      BY <2>1, <3>1, <3>2 DEF Sound, LocksLogged, LocksSigned
  <2>7. Moves(s, t)
    BY <2>1, <2>3 DEF Moves, KeepsLock
  <2> QED
    BY <2>4, <2>5, <2>6, <2>7 DEF Sound, t
<1> QED
  BY <1>2, <1>3, <1>4

-----------------------------------------------------------------------------
(* The invariant, and the theorems.                                        *)

VoteInv ==
    /\ TypeInv /\ ProposalInv
    /\ \A n \in Nodes : Sound(n, node[n], Others(n), OtherBlocks(n))

\* One node has moved soundly.
SoundStep(n, s) ==
    /\ node' = [node EXCEPT ![n] = s]
    /\ WellTyped(s) /\ Sound(n, s, Others(n), OtherBlocks(n)) /\ Moves(node[n], s)

LEMMA NodesHave ==
    ASSUME VoteInv, NEW n \in Nodes
    PROVE  /\ WellTyped(node[n]) /\ Protected(node[n]) /\ NodeType(node[n])
           /\ Sound(n, node[n], Others(n), OtherBlocks(n))
           /\ Environment(n, Others(n), OtherBlocks(n))
<1>1. /\ \A m \in Nodes : WellTyped(node[m])
      /\ \A m \in Nodes : Protected(node[m]) /\ NodeType(node[m])
      /\ \A m \in Nodes : Sound(m, node[m], Others(m), OtherBlocks(m))
  BY DEF VoteInv, TypeInv, ProposalInv
<1>2. ASSUME NEW v \in Others(n) PROVE IsBallot(v) /\ v.validator # n
  <2>1. PICK m \in Nodes \ {n} : v \in node[m].ballots
    BY DEF Others
  <2> QED
    BY <1>1, <2>1 DEF WellTyped, AreBallots, Sound, OwnBallots
<1>3. ASSUME NEW b \in OtherBlocks(n) PROVE b.proposer # n
  <2>1. PICK m \in Nodes \ {n} : b \in node[m].proposals
    BY DEF OtherBlocks
  <2> QED
    BY <1>1, <2>1 DEF Sound, ProposalsSigned
<1> QED
  BY <1>1, <1>2, <1>3 DEF Environment

LEMMA BootSound ==
    ASSUME VoteInv, NEW n \in Nodes, NEW outcome \in Outcomes, Boot(n, outcome)
    PROVE  \E s : SoundStep(n, s)
<1> DEFINE O == Others(n)
           P == OtherBlocks(n)
           r == PersistSnapshot(Recovered(node[n]))
           t == MaybePropose(n, r, outcome)
<1>1. /\ WellTyped(node[n]) /\ Protected(node[n]) /\ NodeType(node[n])
      /\ Sound(n, node[n], O, P) /\ Environment(n, O, P)
  BY NodesHave
<1>2. node' = [node EXCEPT ![n] = t]
  BY DEF Boot
<1> HIDE DEF O, P
<1>3. WellTyped(r) /\ Sound(n, r, O, P) /\ Moves(node[n], r)
  BY <1>1, RecoveredTyped, RecoveredSound
<1>4. Protected(r)
  <2>1. r.proposals = node[n].proposals /\ r.protection = node[n].protection
    BY <1>1, RecoveredType
  <2> QED
    BY <1>1, <2>1 DEF Protected
<1> HIDE DEF r
<1>5. WellTyped(t) /\ Sound(n, t, O, P) /\ Moves(r, t)
  BY <1>1, <1>3, <1>4, MaybeProposeTyped, MaybeProposeSound
<1> HIDE DEF t
<1>6. Moves(node[n], t)
  BY <1>1, <1>3, <1>5, MovesTransitive
<1>7. SoundStep(n, t)
  BY <1>2, <1>5, <1>6 DEF SoundStep, O, P
<1> QED
  BY <1>7

LEMMA TimeoutSound ==
    ASSUME VoteInv, NEW n \in Nodes, Timeout(n)
    PROVE  \E s : SoundStep(n, s)
<1> DEFINE O == Others(n)
           P == OtherBlocks(n)
           e == EmitPrevote(n, node[n])
           a == AdvanceRound(e)
<1>1. /\ WellTyped(node[n]) /\ Protected(node[n]) /\ NodeType(node[n])
      /\ Sound(n, node[n], O, P) /\ Environment(n, O, P)
  BY NodesHave
<1>2. PICK outcome \in Outcomes : node' = [node EXCEPT ![n] = MaybePropose(n, a, outcome)]
  BY DEF Timeout
<1> HIDE DEF O, P
<1>3. /\ WellTyped(e) /\ e.round \in {node[n].round, 0}
      /\ Sound(n, e, O, P) /\ Moves(node[n], e)
  BY <1>1, EmitPrevoteTyped, EmitPrevoteSound
<1>4. e.round < MaxRound
  <2>1. node[n].round < MaxRound /\ node[n].round \in Nat
    BY <1>1 DEF Timeout, NodeType
  <2> QED
    BY <1>3, <2>1, BoundsAssumption
<1>5. /\ NodeType(e) /\ e.proposals = node[n].proposals
      /\ e.protection = node[n].protection
  BY <1>1, EmitPrevoteType
<1> HIDE DEF e
<1>6. WellTyped(a) /\ Sound(n, a, O, P) /\ Moves(e, a)
  BY <1>3, <1>4, AdvanceRoundTyped, AdvanceRoundSound
<1>7. Protected(a)
  <2>1. a.proposals = e.proposals /\ a.protection = e.protection
    BY <1>5, AdvanceRoundType
  <2> QED
    BY <1>1, <1>5, <2>1 DEF Protected
<1> HIDE DEF a
<1> DEFINE t == MaybePropose(n, a, outcome)
<1>8. WellTyped(t) /\ Sound(n, t, O, P) /\ Moves(a, t)
  BY <1>1, <1>6, <1>7, MaybeProposeTyped, MaybeProposeSound
<1>9. node' = [node EXCEPT ![n] = t]
  BY <1>2
<1> HIDE DEF t
<1>10. Moves(node[n], a)
  BY <1>1, <1>3, <1>6, MovesTransitive
<1>11. Moves(node[n], t)
  BY <1>1, <1>6, <1>8, <1>10, MovesTransitive
<1>12. SoundStep(n, t)
  BY <1>8, <1>9, <1>11 DEF SoundStep, O, P
<1> QED
  BY <1>12

LEMMA NextSound ==
    ASSUME VoteInv, Next
    PROVE  \E n \in Nodes : \E s : SoundStep(n, s)
<1>1. ASSUME NEW n \in Nodes, Start(n) \/ Restart(n)
      PROVE  \E s : SoundStep(n, s)
  BY <1>1, BootSound DEF Start, Restart
<1>2. ASSUME NEW n \in Nodes, OnProposal(n)
      PROVE  \E s : SoundStep(n, s)
  <2>1. PICK m \in Nodes \ {n} : \E b \in node[m].proposals :
           /\ Current(node[n], b) /\ ValidProposal(node[n], b)
           /\ node' = [node EXCEPT ![n] = ReceiveProposal(n, node[n], b)]
    BY <1>2 DEF OnProposal, Peers
  <2>2. PICK b \in node[m].proposals :
           /\ Current(node[n], b) /\ ValidProposal(node[n], b)
           /\ node' = [node EXCEPT ![n] = ReceiveProposal(n, node[n], b)]
    BY <2>1
  <2>3. IsBlock(b) /\ b \in OtherBlocks(n)
    BY NodesHave DEF WellTyped, AreBlocks, OtherBlocks
  <2>4. SoundStep(n, ReceiveProposal(n, node[n], b))
    BY <2>2, <2>3, NodesHave, ReceiveProposalTyped, ReceiveProposalSound DEF SoundStep
  <2> QED
    BY <2>4
<1>3. ASSUME NEW n \in Nodes, OnVote(n)
      PROVE  \E s : SoundStep(n, s)
  <2>1. PICK m \in Nodes \ {n} : \E v \in node[m].ballots :
           /\ Current(node[n], v)
           /\ node' = [node EXCEPT ![n] = HandleVoteActions(n, node[n], v)]
    BY <1>3 DEF OnVote, Peers
  <2>2. PICK v \in node[m].ballots :
           /\ Current(node[n], v)
           /\ node' = [node EXCEPT ![n] = HandleVoteActions(n, node[n], v)]
    BY <2>1
  <2>3. IsBallot(v) /\ v \in Others(n) \cup node[n].ballots
    BY NodesHave DEF WellTyped, AreBallots, Others
  <2>4. SoundStep(n, HandleVoteActions(n, node[n], v))
    BY <2>2, <2>3, NodesHave, HandleVoteActionsTyped, HandleVoteActionsSound DEF SoundStep
  <2> QED
    BY <2>4
<1>4. ASSUME NEW n \in Nodes, OnCommit(n)
      PROVE  \E s : SoundStep(n, s)
  <2>1. PICK m \in Nodes : \E f \in node[m].commits :
           /\ f.block.height >= node[n].height
           /\ node' = [node EXCEPT ![n] = ImportFinalizedBlock(node[n], f)]
    BY <1>4 DEF OnCommit, Peers
  <2>2. PICK f \in node[m].commits :
           /\ f.block.height >= node[n].height
           /\ node' = [node EXCEPT ![n] = ImportFinalizedBlock(node[n], f)]
    BY <2>1
  <2>3. IsBlock(f.block)
    BY NodesHave DEF WellTyped, AreFinalized
  <2>4. SoundStep(n, ImportFinalizedBlock(node[n], f))
    BY <2>2, <2>3, NodesHave, ImportFinalizedBlockTyped, ImportFinalizedBlockSound
    DEF SoundStep
  <2> QED
    BY <2>4
<1> QED
  BY <1>1, <1>2, <1>3, <1>4, TimeoutSound DEF Next

\* What a node has counted stays signed when others sign more.
LEMMA SoundStaysSound ==
    ASSUME NEW m, NEW s, NEW O, NEW OO, NEW P, NEW PP,
           O \subseteq OO, P \subseteq PP, WellTyped(s), Sound(m, s, O, P),
           \A v \in OO : IsBallot(v), OneBlockEach(PP \cup s.proposals)
    PROVE  Sound(m, s, OO, PP)
<1>1. OwnBallots(m, s) /\ VotesSigned(s, OO)
  BY DEF Sound, VotesSigned
<1>2. ProposalsSigned(m, s, PP)
  BY DEF Sound, ProposalsSigned
<1>3. LocksLogged(s) /\ LocksSigned(s, PP)
  BY DEF Sound, LocksSigned
<1>4. PolkasSigned(s, OO)
  <2> SUFFICES ASSUME s.jailed = {}, NEW w \in s.ballots, w.step = "precommit"
               PROVE  Cardinality(SignersIn(OO \cup s.ballots, "prevote",
                                            w.height, w.round, w.hash)) >= QuorumOf(N)
    BY DEF PolkasSigned
  <2> DEFINE A == O \cup s.ballots
             B == OO \cup s.ballots
  <2>1. Cardinality(SignersIn(A, "prevote", w.height, w.round, w.hash)) >= QuorumOf(N)
    BY DEF Sound, PolkasSigned
  <2>2. A \subseteq B /\ \A v \in B : v.validator \in Validators
    BY DEF WellTyped, AreBallots, IsBallot
  <2> HIDE DEF A, B
  <2>3. /\ Cardinality(SignersIn(A, "prevote", w.height, w.round, w.hash)) \in Nat
        /\ Cardinality(SignersIn(B, "prevote", w.height, w.round, w.hash)) \in Nat
        /\ Cardinality(SignersIn(A, "prevote", w.height, w.round, w.hash))
              <= Cardinality(SignersIn(B, "prevote", w.height, w.round, w.hash))
    BY <2>2, SignersMonotone
  <2> QED
    BY <2>1, <2>3, QuorumNat DEF B
<1> QED
  BY <1>1, <1>2, <1>3, <1>4 DEF Sound

LEMMA VoteInvStep ==
    ASSUME VoteInv, TypeInv', ProposalInv', NEW n \in Nodes, NEW s, SoundStep(n, s)
    PROVE  VoteInv'
<1>1. /\ node'[n] = s
      /\ \A m \in Nodes \ {n} : node'[m] = node[m]
  BY DEF SoundStep, VoteInv, TypeInv
<1>2. Others(n)' = Others(n) /\ OtherBlocks(n)' = OtherBlocks(n)
  BY <1>1 DEF Others, OtherBlocks
<1>3. node[n].ballots \subseteq s.ballots /\ node[n].proposals \subseteq s.proposals
  BY DEF SoundStep, Moves
<1>4. Sound(n, node'[n], Others(n)', OtherBlocks(n)')
  BY <1>1, <1>2 DEF SoundStep
<1>5. ASSUME NEW m \in Nodes \ {n}
      PROVE  Sound(m, node'[m], Others(m)', OtherBlocks(m)')
  <2>1. Others(m) \subseteq Others(m)' /\ OtherBlocks(m) \subseteq OtherBlocks(m)'
    BY <1>1, <1>3 DEF Others, OtherBlocks
  <2>2. \A v \in Others(m)' : IsBallot(v)
    <3> SUFFICES ASSUME NEW v \in Others(m)' PROVE IsBallot(v)
      OBVIOUS
    <3>1. PICK k \in Nodes : v \in node'[k].ballots
      BY DEF Others
    <3>2. WellTyped(node'[k])
      BY DEF TypeInv
    <3> QED
      BY <3>1, <3>2 DEF WellTyped, AreBallots
  <2>3. OneBlockEach(OtherBlocks(m)' \cup node[m].proposals)
    <3>1. OtherBlocks(m)' \cup node[m].proposals \subseteq OtherBlocks(n) \cup s.proposals
      BY <1>1 DEF OtherBlocks
    <3>2. OneBlockEach(OtherBlocks(n) \cup s.proposals)
      BY DEF SoundStep, Sound, ProposalsSigned
    <3> QED
      BY <3>1, <3>2 DEF OneBlockEach
  <2>4. WellTyped(node[m]) /\ Sound(m, node[m], Others(m), OtherBlocks(m))
    BY NodesHave
  <2>5. Sound(m, node[m], Others(m)', OtherBlocks(m)')
    BY <2>1, <2>2, <2>3, <2>4, SoundStaysSound
  <2> QED
    BY <1>1, <2>5
<1> QED
  BY <1>4, <1>5 DEF VoteInv

LEMMA VoteInvNext == VoteInv /\ [Next]_vars => VoteInv'
<1> SUFFICES ASSUME VoteInv, [Next]_vars PROVE VoteInv'
  OBVIOUS
<1>1. TypeInv' /\ ProposalInv'
  BY TypeInvNext, ProposalInvNext DEF VoteInv
<1>2. CASE UNCHANGED vars
  <2>1. node' = node
    BY <1>2 DEF vars
  <2> QED
    BY <1>1, <2>1 DEF VoteInv, Others, OtherBlocks
<1>3. CASE Next
  BY <1>1, <1>3, NextSound, VoteInvStep
<1> QED
  BY <1>2, <1>3

LEMMA VoteInvInit == Init => VoteInv
<1> SUFFICES ASSUME Init PROVE VoteInv
  OBVIOUS
<1>1. TypeInv /\ ProposalInv
  BY TypeInvInit, ProposalInvInit
<1>2. ASSUME NEW n \in Nodes PROVE Sound(n, node[n], Others(n), OtherBlocks(n))
  <2>1. \A m \in Nodes : node[m] = BlankNode
    BY DEF Init
  <2>2. /\ BlankNode.ballots = {} /\ BlankNode.votes = {} /\ BlankNode.proposals = {}
        /\ BlankNode.proposal = {} /\ BlankNode.locked = {} /\ BlankNode.walLocked = {}
    BY DEF BlankNode
  <2>3. OtherBlocks(n) = {}
    BY <2>1, <2>2 DEF OtherBlocks
  <2>4. OwnBallots(n, BlankNode) /\ VotesSigned(BlankNode, Others(n))
        /\ PolkasSigned(BlankNode, Others(n))
    BY <2>2 DEF OwnBallots, VotesSigned, PolkasSigned
  <2>5. /\ ProposalsSigned(n, BlankNode, OtherBlocks(n)) /\ LocksLogged(BlankNode)
        /\ LocksSigned(BlankNode, OtherBlocks(n))
    BY <2>2, <2>3 DEF ProposalsSigned, OneBlockEach, LocksLogged, LocksSigned
  <2> QED
    BY <2>1, <2>4, <2>5 DEF Sound
<1> QED
  BY <1>1, <1>2 DEF VoteInv

LEMMA AllBallotsSplit ==
    ASSUME NEW n \in Nodes
    PROVE  Others(n) \cup node[n].ballots = AllBallots
BY DEF Others, AllBallots

(* Behind every precommit that emit_precommit signs, for a block or for    *)
(* NIL, are prevotes that more than two thirds of all validators really    *)
(* signed in that round: for any number of validators, connections, lost   *)
(* or repeated messages, and restarts in which votes are cast again.  Once *)
(* finalize has jailed a validator the quorum is that of the rest, so the  *)
(* theorem is about the time before.                                       *)
THEOREM PolkaTheorem ==
    Spec => []((\A n \in Nodes : node[n].jailed = {}) => PolkaBehindPrecommit)
<1>1. ASSUME VoteInv, \A n \in Nodes : node[n].jailed = {}
      PROVE  PolkaBehindPrecommit
  <2> SUFFICES ASSUME NEW n \in Nodes, NEW v \in node[n].ballots, v.step = "precommit"
               PROVE  Cardinality(SignersIn(AllBallots, "prevote", v.height, v.round, v.hash))
                         >= QuorumOf(N)
    BY DEF PolkaBehindPrecommit
  <2>1. Cardinality(SignersIn(Others(n) \cup node[n].ballots, "prevote",
                              v.height, v.round, v.hash)) >= QuorumOf(N)
    BY <1>1 DEF VoteInv, Sound, PolkasSigned
  <2> QED
    BY <2>1, AllBallotsSplit
<1>2. VoteInv => ((\A n \in Nodes : node[n].jailed = {}) => PolkaBehindPrecommit)
  BY <1>1
<1> QED
  BY <1>2, VoteInvInit, VoteInvNext, PTL DEF Spec

(* A validator keeps its lock as long as it stays at its height, through   *)
(* timeouts and through restarts, in which recover_snapshot reads it back  *)
(* from the WAL; record_vote exchanges it only for one of a later round.   *)
(* That a second lock of the same round is the same lock rests on the      *)
(* slashing protection of proposals: the proposer of a round signs one     *)
(* block per height.                                                       *)
THEOREM LockKeptTheorem == Spec => LockKept
<1> DEFINE Kept == \A n \in Nodes :
                     node'[n].height = node[n].height =>
                        \A l \in node[n].locked : \E k \in node'[n].locked :
                            k = l \/ k.round > l.round
<1>1. VoteInv /\ [Next]_vars => [Kept]_vars
  <2> SUFFICES ASSUME VoteInv, Next PROVE Kept
    BY DEF vars
  <2>1. PICK n \in Nodes : \E s : SoundStep(n, s)
    BY NextSound
  <2>2. PICK s : SoundStep(n, s)
    BY <2>1
  <2>3. /\ node'[n] = s
        /\ \A m \in Nodes \ {n} : node'[m] = node[m]
    BY <2>2 DEF SoundStep, VoteInv, TypeInv
  <2>4. node[n].height \in Nat /\ s.height \in Nat /\ KeepsLock(node[n], s)
    BY <2>2, NodesHave DEF SoundStep, Moves, NodeType, WellTyped
  <2>5. ASSUME NEW m \in Nodes, node'[m].height = node[m].height, NEW l \in node[m].locked
        PROVE  \E k \in node'[m].locked : k = l \/ k.round > l.round
    <3>1. CASE m = n
      BY <2>3, <2>4, <2>5, <3>1 DEF KeepsLock
    <3>2. CASE m # n
      BY <2>3, <2>5, <3>2
    <3> QED
      BY <3>1, <3>2
  <2> QED
    BY <2>5
<1> QED
  BY <1>1, VoteInvInit, VoteInvNext, PTL DEF Spec, LockKept

=============================================================================
