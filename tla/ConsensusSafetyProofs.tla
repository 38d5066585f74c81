----------------------- MODULE ConsensusSafetyProofs -----------------------
(***************************************************************************)
(* Safety of Consensus as long as no node has restarted: nobody is         *)
(* accused, a lock binds, chains are linked, all nodes finalize the same   *)
(* blocks, and Consensus implements Finality.                              *)
(***************************************************************************)
EXTENDS ConsensusProofs, MCConsensus, SequenceTheorems

(* What a node that has not restarted keeps true between any two moves of  *)
(* a handler.  O is what the others have signed.                           *)

Blameless(s) == s.jailed = {} /\ s.evidence = {}

OneVoteEach(V) ==
    \A v, w \in V : (/\ v.validator = w.validator /\ v.step = w.step
                     /\ v.height = w.height /\ v.round = w.round) => v = w

\* The flags of RoundState know of every vote cast in this round.
VotesCast(s) ==
    \A v \in s.ballots : Current(s, v) =>
        /\ v \in s.votes
        /\ v.step = "prevote" => s.prevoted
        /\ v.step = "precommit" => s.precommitted

(* A prevote for a block is for the proposal held, and once a quorum of    *)
(* such prevotes is counted there is a lock.                               *)
PrevotesHeld(s) ==
    \A u \in s.ballots : (Current(s, u) /\ u.step = "prevote" /\ u.hash # Nil) =>
        /\ s.proposal = u.hash
        /\ HasQuorum(s, "prevote", u.hash) => s.locked # {}

PrecommitsBacked(s) ==
    \A u \in s.ballots : (Current(s, u) /\ u.step = "precommit") =>
        HasQuorum(s, "prevote", u.hash)

LocksTimely(s) ==
    /\ s.valid = s.locked
    /\ \A l \in s.locked : l.round = s.round => s.proposal = {l.block}

\* Both votes for a block at this height mean a lock.
LockHeld(s) ==
    \A u, v \in s.ballots :
        ( /\ u.step = "prevote" /\ v.step = "precommit"
          /\ u.hash # Nil /\ u.hash = v.hash
          /\ u.height = s.height /\ v.height = s.height /\ u.round = v.round )
        => s.locked # {}

\* LockBinds for one node.
Bound(s) ==
    \A u, v, w \in s.ballots :
        ( /\ u.step = "prevote" /\ v.step = "precommit"
          /\ u.hash # Nil /\ u.hash = v.hash
          /\ u.height = v.height /\ u.round = v.round
          /\ w.step = "prevote" /\ w.height = u.height /\ w.round > u.round )
        => w.hash = Nil

Steady(s, O) ==
    /\ Blameless(s) /\ OneVoteEach(O \cup s.ballots) /\ VotesCast(s)
    /\ PrevotesHeld(s) /\ PrecommitsBacked(s) /\ LocksTimely(s)
    /\ LockHeld(s) /\ Bound(s)

\* A validator prevotes in the handler that gives it a proposal.
PrevotedAtOnce(n, s) == (n \in Validators /\ s.proposal # {}) => s.prevoted

-----------------------------------------------------------------------------
(* The chain.                                                              *)

Linked(b) ==
    \/ b.parent = {} /\ b.height = 1
    \/ \E p \in b.parent : b.parent = {p} /\ p.height = b.height - 1

\* The round in which f was finalized had a quorum of signed precommits.
Certificate(f, V) ==
    Cardinality(SignersIn(V, "precommit", f.block.height, f.block.round, {f.block}))
        >= QuorumOf(N)

Certified(s, O) == \A f \in s.commits \cup s.blocks : Certificate(f, O \cup s.ballots)

AllLinked(s) ==
    /\ \A b \in s.proposal \cup s.proposals : Linked(b)
    /\ \A f \in s.commits : Linked(f.block)

\* The latest block is stored, right below the height being decided.
AtTip(s) ==
    /\ \/ s.latest = {} /\ s.height = 1
       \/ \E f \in s.blocks : s.latest = {f.block} /\ f.block.height = s.height - 1
    /\ \A f \in s.blocks : f.block.height \in Nat /\ f.block.height < s.height

\* ChainLinked for one node.
Chain(s) ==
    \A f \in s.blocks :
        \/ f.block.height = 1 /\ f.block.parent = Nil
        \/ \E g \in s.blocks : /\ g.block.height = f.block.height - 1
                               /\ f.block.parent = {g.block}

\* One block at every height below the one being decided.
Numbered(s) ==
    /\ IsFiniteSet(s.blocks) /\ Cardinality(s.blocks) = s.height - 1
    /\ \A f, g \in s.blocks : f.block.height = g.block.height => f = g
    /\ \A h \in 1..(s.height - 1) : \E f \in s.blocks : f.block.height = h

Chained(s, O) ==
    Certified(s, O) /\ AllLinked(s) /\ AtTip(s) /\ Chain(s) /\ Numbered(s)

(* All that is known of a node in the middle of a handler.                 *)
Good(n, s, O, P) ==
    /\ WellTyped(s) /\ Sound(n, s, O, P) /\ Steady(s, O) /\ Chained(s, O)

-----------------------------------------------------------------------------
(* Frames.                                                                 *)

LEMMA SameQuorums ==
    ASSUME NEW s, NEW t, t.votes = s.votes, t.jailed = s.jailed
    PROVE  \A step, hash : HasQuorum(t, step, hash) <=> HasQuorum(s, step, hash)
BY JailDecides DEF HasQuorum

LEMMA SteadyFrame ==
    ASSUME NEW O, NEW s, NEW t, Steady(s, O),
           t.height = s.height, t.round = s.round, t.ballots = s.ballots,
           t.votes = s.votes, t.jailed = s.jailed, t.evidence = s.evidence,
           t.proposal = s.proposal, t.locked = s.locked, t.valid = s.valid,
           t.prevoted = s.prevoted, t.precommitted = s.precommitted
    PROVE  Steady(t, O)
<1>1. \A step, hash : HasQuorum(t, step, hash) <=> HasQuorum(s, step, hash)
  BY SameQuorums
<1>2. Blameless(t) /\ OneVoteEach(O \cup t.ballots) /\ VotesCast(t)
  BY DEF Steady, Blameless, VotesCast, Current
<1>3. PrevotesHeld(t) /\ PrecommitsBacked(t)
  BY <1>1 DEF Steady, PrevotesHeld, PrecommitsBacked, Current
<1>4. LocksTimely(t) /\ LockHeld(t) /\ Bound(t)
  BY DEF Steady, LocksTimely, LockHeld, Bound
<1> QED
  BY <1>2, <1>3, <1>4 DEF Steady

LEMMA CertificateMonotone ==
    ASSUME NEW V, NEW W, V \subseteq W, \A v \in W : v.validator \in Validators,
           NEW f, Certificate(f, V)
    PROVE  Certificate(f, W)
<1> DEFINE A == SignersIn(V, "precommit", f.block.height, f.block.round, {f.block})
           B == SignersIn(W, "precommit", f.block.height, f.block.round, {f.block})
<1>1. Cardinality(A) \in Nat /\ Cardinality(B) \in Nat /\ Cardinality(A) <= Cardinality(B)
  BY SignersMonotone
<1>2. Cardinality(A) >= QuorumOf(N)
  BY DEF Certificate
<1> HIDE DEF A, B
<1>3. Cardinality(B) >= QuorumOf(N)
  BY <1>1, <1>2, QuorumNat
<1> QED
  BY <1>3 DEF Certificate, B

LEMMA ChainedFrame ==
    ASSUME NEW n, NEW O, NEW P, Environment(n, O, P), NEW s, NEW t, Chained(s, O),
           WellTyped(t), s.ballots \subseteq t.ballots, t.blocks = s.blocks,
           t.commits = s.commits, t.latest = s.latest, t.height = s.height,
           t.proposal = s.proposal, t.proposals = s.proposals
    PROVE  Chained(t, O)
<1>1. Certified(t, O)
  <2> SUFFICES ASSUME NEW f \in s.commits \cup s.blocks
               PROVE  Certificate(f, O \cup t.ballots)
    BY DEF Certified
  <2> DEFINE V == O \cup s.ballots
             W == O \cup t.ballots
  <2>1. Certificate(f, V)
    BY DEF Chained, Certified
  <2>2. V \subseteq W /\ \A v \in W : v.validator \in Validators
    BY DEF Environment, WellTyped, AreBallots, IsBallot
  <2> HIDE DEF V, W
  <2>3. Certificate(f, W)
    BY <2>1, <2>2, CertificateMonotone
  <2> QED
    BY <2>3 DEF W
<1>2. AllLinked(t) /\ AtTip(t) /\ Chain(t) /\ Numbered(t)
  BY DEF Chained, AllLinked, AtTip, Chain, Numbered
<1> QED
  BY <1>1, <1>2 DEF Chained

-----------------------------------------------------------------------------
(* Voting.                                                                 *)

(* record_vote for a vote that conflicts with none: it is counted, and     *)
(* there is a new lock exactly if it completes, or repeats, a polka for    *)
(* the proposal held.                                                      *)
Polka(t, v) ==
    /\ v.step = "prevote" /\ v.hash # Nil /\ t.proposal = v.hash
    /\ HasQuorum(t, "prevote", v.hash)

LEMMA RecordedFields ==
    ASSUME NEW s, IsNode(s), NEW v, ~Conflicts(s, v)
    PROVE  LET t == RecordVote(s, v)
           IN  /\ Changes(s, t, {"votes", "valid", "walValid", "locked", "walLocked"})
               /\ t.votes = s.votes \cup {v}
               /\ IF Polka(t, v)
                  THEN /\ t.locked = {[round |-> s.round, block |-> b] : b \in v.hash}
                       /\ t.valid = t.locked
                  ELSE t.locked = s.locked /\ t.valid = s.valid
<1> DEFINE t == RecordVote(s, v)
           u == [s EXCEPT !.votes = @ \cup {v}]
           lock == {[round |-> s.round, block |-> b] : b \in v.hash}
           polka == /\ v.step = "prevote" /\ QuorumReached(s, v)
                    /\ v.hash # Nil /\ s.proposal = v.hash
<1>1. /\ Changes(s, t, {"votes", "valid", "walValid", "locked", "walLocked"})
      /\ t.votes = s.votes \cup {v}
      /\ \/ ~polka /\ t.locked = s.locked /\ t.valid = s.valid
         \/ polka /\ t.locked = lock /\ t.valid = t.locked
  BY RecordVoteChanges
<1>2. QuorumReached(s, v) <=> HasQuorum(u, v.step, v.hash)
  BY DEF QuorumReached
<1>3. u.votes = s.votes \cup {v} /\ u.jailed = s.jailed
  BY DEF IsNode, Fields
<1> HIDE DEF t, u, lock
<1>4. t.proposal = s.proposal /\ t.jailed = s.jailed
  BY <1>1 DEF Changes, Fields
<1>5. HasQuorum(u, v.step, v.hash) <=> HasQuorum(t, v.step, v.hash)
  BY <1>1, <1>3, <1>4, SameQuorums
<1>6. polka <=> Polka(t, v)
  BY <1>2, <1>4, <1>5 DEF Polka
<1> HIDE DEF polka
<1> QED
  BY <1>1, <1>6 DEF t, lock

\* Counting one more vote.
LEMMA QuorumGrows ==
    ASSUME NEW s, NEW t, AreBallots(t.votes), t.jailed = s.jailed, NEW v,
           t.votes = s.votes \cup {v}, NEW step, NEW hash
    PROVE  /\ HasQuorum(s, step, hash) => HasQuorum(t, step, hash)
           /\ (v.step # step \/ v.hash # hash)
                 => (HasQuorum(t, step, hash) <=> HasQuorum(s, step, hash))
<1> DEFINE X == {w \in s.votes : w.step = step /\ w.hash = hash}
           Y == {w \in t.votes : w.step = step /\ w.hash = hash}
<1>1. X \subseteq Y /\ \A w \in Y : w.validator \in Validators
  BY DEF AreBallots, IsBallot
<1>2. (v.step # step \/ v.hash # hash) => X = Y
  OBVIOUS
<1>3. Quorum(t) = Quorum(s) /\ Quorum(s) \in Nat
  <2>1. Quorum(t) = Quorum(s)
    BY JailDecides
  <2>2. ActiveValidators(s) \subseteq Validators
    BY DEF ActiveValidators
  <2>3. Cardinality(ActiveValidators(s)) \in Nat
    BY <2>2, ValidatorsFinite, FS_Subset, FS_CardinalityType
  <2> QED
    BY <2>1, <2>3 DEF Quorum, QuorumOf
<1>4. /\ HasQuorum(s, step, hash) <=> Cardinality(Voters(X)) >= Quorum(s)
      /\ HasQuorum(t, step, hash) <=> Cardinality(Voters(Y)) >= Quorum(s)
  BY <1>3 DEF HasQuorum
<1> HIDE DEF X, Y
<1>5. /\ Cardinality(Voters(X)) \in Nat /\ Cardinality(Voters(Y)) \in Nat
      /\ Cardinality(Voters(X)) <= Cardinality(Voters(Y))
  BY <1>1, VotersMonotone
<1> QED
  BY <1>2, <1>3, <1>4, <1>5

(* A node that has signed x and not yet recorded it.                       *)
CastBut(s, x) ==
    \A v \in s.ballots : Current(s, v) =>
        /\ v = x \/ v \in s.votes
        /\ v.step = "prevote" => s.prevoted
        /\ v.step = "precommit" => s.precommitted

HeldBut(s, x) ==
    \A u \in s.ballots : (Current(s, u) /\ u.step = "prevote" /\ u.hash # Nil) =>
        /\ s.proposal = u.hash
        /\ u = x \/ (HasQuorum(s, "prevote", u.hash) => s.locked # {})

LockBut(s, x) ==
    \A u, v \in s.ballots :
        ( /\ u.step = "prevote" /\ v.step = "precommit" /\ u # x
          /\ u.hash # Nil /\ u.hash = v.hash
          /\ u.height = s.height /\ v.height = s.height /\ u.round = v.round )
        => s.locked # {}

Pending(s, O, x) ==
    /\ Blameless(s) /\ OneVoteEach(O \cup s.ballots) /\ CastBut(s, x)
    /\ HeldBut(s, x) /\ PrecommitsBacked(s) /\ LocksTimely(s)
    /\ LockBut(s, x) /\ Bound(s)

LEMMA SteadyIsPending ==
    ASSUME NEW s, NEW O, NEW x, Steady(s, O)
    PROVE  Pending(s, O, x)
<1>1. CastBut(s, x)
  BY DEF Steady, VotesCast, CastBut
<1>2. HeldBut(s, x) /\ LockBut(s, x)
  BY DEF Steady, PrevotesHeld, HeldBut, LockHeld, LockBut
<1> QED
  BY <1>1, <1>2 DEF Steady, Pending

\* Counting a vote: it conflicts with none, and makes the node steady.
LEMMA RecordVoteSteady ==
    ASSUME NEW n, NEW O, NEW P, Environment(n, O, P),
           NEW s, WellTyped(s), Sound(n, s, O, P), NEW v, Pending(s, O, v),
           v \in O \cup s.ballots, Current(s, v), IsBallot(v)
    PROVE  LET t == RecordVote(s, v)
           IN  /\ Steady(t, O) /\ (s.locked # {} => t.locked # {})
               /\ Changes(s, t, {"votes", "valid", "walValid", "locked", "walLocked"})
<1> DEFINE t == RecordVote(s, v)
           lock == {[round |-> s.round, block |-> b] : b \in v.hash}
<1>1. ~Conflicts(s, v)
  BY DEF Conflicts, Sound, VotesSigned, Pending, OneVoteEach, Current
<1>2. IsNode(s)
  BY DEF WellTyped, NodeType
<1>3. /\ Changes(s, t, {"votes", "valid", "walValid", "locked", "walLocked"})
      /\ t.votes = s.votes \cup {v}
      /\ IF Polka(t, v)
         THEN t.locked = lock /\ t.valid = t.locked
         ELSE t.locked = s.locked /\ t.valid = s.valid
  BY <1>1, <1>2, RecordedFields
<1>4. WellTyped(t)
  BY RecordVoteTyped
<1> HIDE DEF t
<1>5. /\ t.height = s.height /\ t.round = s.round /\ t.ballots = s.ballots
      /\ t.jailed = s.jailed /\ t.evidence = s.evidence /\ t.proposal = s.proposal
      /\ t.prevoted = s.prevoted /\ t.precommitted = s.precommitted
  BY <1>3 DEF Changes, Fields
<1>6. AreBallots(t.votes)
  BY <1>4 DEF WellTyped
<1>7. \A step, hash :
         /\ HasQuorum(s, step, hash) => HasQuorum(t, step, hash)
         /\ (v.step # step \/ v.hash # hash)
               => (HasQuorum(t, step, hash) <=> HasQuorum(s, step, hash))
  BY <1>3, <1>5, <1>6, QuorumGrows
<1>8. Polka(t, v) => lock # {}
  BY DEF Polka, Nil
<1>9. Polka(t, v) => t.locked # {}
  BY <1>3, <1>8
<1>10. s.locked # {} => t.locked # {}
  BY <1>3, <1>9
<1>11. Blameless(t) /\ OneVoteEach(O \cup t.ballots)
  BY <1>5 DEF Pending, Blameless
<1>12. VotesCast(t)
  BY <1>3, <1>5 DEF Pending, CastBut, VotesCast, Current
<1>13. PrevotesHeld(t)
  <2> SUFFICES ASSUME NEW u \in s.ballots, Current(s, u), u.step = "prevote", u.hash # Nil
               PROVE  /\ t.proposal = u.hash
                      /\ HasQuorum(t, "prevote", u.hash) => t.locked # {}
    BY <1>5 DEF PrevotesHeld, Current
  <2>1. /\ t.proposal = u.hash
        /\ u = v \/ (HasQuorum(s, "prevote", u.hash) => s.locked # {})
    BY <1>5 DEF Pending, HeldBut
  <2>2. CASE v.step = "prevote" /\ v.hash = u.hash
    BY <1>9, <2>1, <2>2 DEF Polka
  <2>3. CASE v.step # "prevote" \/ v.hash # u.hash
    BY <1>7, <1>10, <2>1, <2>3
  <2> QED
    BY <2>1, <2>2, <2>3
<1>14. PrecommitsBacked(t)
  BY <1>5, <1>7 DEF Pending, PrecommitsBacked, Current
<1>15. LocksTimely(t)
  <2>1. CASE Polka(t, v)
    <3>1. PICK b : v.hash = {b}
      BY <2>1 DEF Polka, IsBallot, IsHash
    <3>2. lock = {[round |-> s.round, block |-> b]}
      BY <3>1
    <3>3. \A l \in t.locked : l.block = b
      BY <1>3, <2>1, <3>2
    <3> QED
      BY <1>3, <2>1, <3>1, <3>3 DEF LocksTimely, Polka
  <2>2. CASE ~Polka(t, v)
    BY <1>3, <1>5, <2>2 DEF Pending, LocksTimely
  <2> QED
    BY <2>1, <2>2
<1>16. LockHeld(t)
  <2> SUFFICES ASSUME NEW u \in s.ballots, NEW w \in s.ballots,
                      u.step = "prevote", w.step = "precommit", u.hash # Nil,
                      u.hash = w.hash, u.height = s.height, w.height = s.height,
                      u.round = w.round
               PROVE  t.locked # {}
    BY <1>5 DEF LockHeld
  <2>1. CASE u = v
    <3>1. Current(s, u) /\ Current(s, w)
      BY <2>1 DEF Current
    <3>2. HasQuorum(s, "prevote", u.hash) /\ s.proposal = u.hash
      BY <3>1 DEF Pending, PrecommitsBacked, HeldBut
    <3>3. Polka(t, v)
      BY <1>5, <1>7, <2>1, <3>2 DEF Polka
    <3> QED
      BY <1>9, <3>3
  <2>2. CASE u # v
    BY <1>10, <2>2 DEF Pending, LockBut
  <2> QED
    BY <2>1, <2>2
<1>17. Bound(t)
  BY <1>5 DEF Pending, Bound
<1> QED
  BY <1>3, <1>10, <1>11, <1>12, <1>13, <1>14, <1>15, <1>16, <1>17 DEF Steady, t

\* Signing a vote of a step in which no vote has been cast yet.
LEMMA FirstVote ==
    ASSUME NEW n, NEW O, NEW P, Environment(n, O, P),
           NEW s, WellTyped(s), Sound(n, s, O, P), Steady(s, O),
           NEW v, IsBallot(v), Current(s, v), v.validator = n,
           v.step = "prevote" => ~s.prevoted,
           v.step = "precommit" => ~s.precommitted
    PROVE  LET t == SignBallot(s, v)
           IN  /\ Changes(s, t, {"prevoted", "precommitted", "ballots"})
               /\ t.ballots = s.ballots \cup {v}
               /\ s.prevoted \/ v.step = "prevote" => t.prevoted
               /\ \A w \in s.ballots : ~(Current(s, w) /\ w.step = v.step)
               /\ Blameless(t) /\ OneVoteEach(O \cup t.ballots) /\ CastBut(t, v)
               /\ LocksTimely(t)
               /\ \A step, hash : HasQuorum(t, step, hash) <=> HasQuorum(s, step, hash)
<1> DEFINE t == SignBallot(s, v)
<1>1. /\ Changes(s, t, {"prevoted", "precommitted", "ballots"})
      /\ t.ballots = s.ballots \cup {v}
      /\ IF v.step = "prevote"
         THEN t.prevoted = TRUE /\ t.precommitted = s.precommitted
         ELSE t.precommitted = TRUE /\ t.prevoted = s.prevoted
  BY SignBallotChanges DEF WellTyped, NodeType
<1> HIDE DEF t
<1>2. /\ t.height = s.height /\ t.round = s.round /\ t.votes = s.votes
      /\ t.jailed = s.jailed /\ t.evidence = s.evidence /\ t.proposal = s.proposal
      /\ t.locked = s.locked /\ t.valid = s.valid
  BY <1>1 DEF Changes, Fields
<1>3. v.step \in {"prevote", "precommit"}
  BY DEF IsBallot
<1>4. \A w \in s.ballots : ~(Current(s, w) /\ w.step = v.step)
  BY <1>3 DEF Steady, VotesCast
<1>5. OneVoteEach(O \cup t.ballots)
  <2>1. ASSUME NEW w \in O \cup s.ballots
        PROVE  ~ /\ w.validator = v.validator /\ w.step = v.step
                 /\ w.height = v.height /\ w.round = v.round
    BY <1>4, <2>1 DEF Environment, Current
  <2> QED
    BY <1>1, <2>1 DEF Steady, OneVoteEach
<1>6. CastBut(t, v)
  BY <1>1, <1>2, <1>3 DEF Steady, VotesCast, CastBut, Current
<1>7. Blameless(t) /\ LocksTimely(t)
  BY <1>2 DEF Steady, Blameless, LocksTimely
<1>8. \A step, hash : HasQuorum(t, step, hash) <=> HasQuorum(s, step, hash)
  BY <1>2, SameQuorums
<1>9. s.prevoted \/ v.step = "prevote" => t.prevoted
  BY <1>1
<1> QED
  BY <1>1, <1>4, <1>5, <1>6, <1>7, <1>8, <1>9 DEF t

\* A precommit on a quorum of prevotes.
LEMMA PrecommitSteady ==
    ASSUME NEW n, NEW O, NEW P, Environment(n, O, P),
           NEW s, WellTyped(s), Sound(n, s, O, P), Steady(s, O),
           NEW v, IsBallot(v), Current(s, v), v.validator = n, v.step = "precommit",
           ~s.precommitted, HasQuorum(s, "prevote", v.hash)
    PROVE  Pending(SignBallot(s, v), O, v)
<1> DEFINE t == SignBallot(s, v)
<1>1. /\ Changes(s, t, {"prevoted", "precommitted", "ballots"})
      /\ t.ballots = s.ballots \cup {v}
      /\ Blameless(t) /\ OneVoteEach(O \cup t.ballots) /\ CastBut(t, v)
      /\ LocksTimely(t)
      /\ \A step, hash : HasQuorum(t, step, hash) <=> HasQuorum(s, step, hash)
  BY FirstVote
<1> HIDE DEF t
<1>2. /\ t.height = s.height /\ t.round = s.round
      /\ t.proposal = s.proposal /\ t.locked = s.locked
  BY <1>1 DEF Changes, Fields
<1>3. HeldBut(t, v)
  BY <1>1, <1>2 DEF Steady, PrevotesHeld, HeldBut, Current
<1>4. PrecommitsBacked(t)
  BY <1>1, <1>2 DEF Steady, PrecommitsBacked, Current
<1>5. LockBut(t, v)
  <2> SUFFICES ASSUME NEW u \in t.ballots, NEW w \in t.ballots,
                      u.step = "prevote", w.step = "precommit", u.hash # Nil,
                      u.hash = w.hash, u.height = t.height, w.height = t.height,
                      u.round = w.round
               PROVE  t.locked # {}
    BY DEF LockBut
  <2>1. u \in s.ballots
    BY <1>1
  <2>2. CASE w = v
    BY <1>2, <2>1, <2>2 DEF Steady, PrevotesHeld, Current
  <2>3. CASE w \in s.ballots
    BY <1>2, <2>1, <2>3 DEF Steady, LockHeld
  <2> QED
    BY <1>1, <2>2, <2>3
<1>6. Bound(t)
  <2> SUFFICES ASSUME NEW u \in t.ballots, NEW w \in t.ballots, NEW x \in t.ballots,
                      u.step = "prevote", w.step = "precommit", u.hash # Nil,
                      u.hash = w.hash, u.height = w.height, u.round = w.round,
                      x.step = "prevote", x.height = u.height, x.round > u.round
               PROVE  x.hash = Nil
    BY DEF Bound
  <2>1. u \in s.ballots /\ x \in s.ballots
    BY <1>1
  <2>2. w # v
    <3>1. NotAfter(x, s) /\ x.round \in Nat /\ s.round \in Nat /\ s.height \in Nat
      BY <2>1 DEF Sound, OwnBallots, WellTyped, NodeType, AreBallots, IsBallot
    <3> QED
      BY <3>1 DEF NotAfter, Current
  <2>3. w \in s.ballots
    BY <1>1, <2>2
  <2> QED
    BY <2>1, <2>3 DEF Steady, Bound
<1> QED
  BY <1>1, <1>3, <1>4, <1>5, <1>6 DEF Pending, t

LocksEarlier(s) == \A l \in s.locked : l.round < s.round

(* The locking rule: a node that comes to prevote with a lock prevotes     *)
(* NIL, because the locked block is of an earlier round than the proposal. *)
LEMMA LockedPrevotesNil ==
    ASSUME NEW s, WellTyped(s), LocksTimely(s), LocksEarlier(s), s.locked # {}
    PROVE  PrevoteHash(s) = Nil
<1>1. PICK l \in s.locked : s.locked = {l} /\ l.round = l.block.round
  BY DEF WellTyped, IsLock
<1>2. l.round \in Nat /\ s.round \in Nat /\ l.round < s.round
  BY DEF WellTyped, NodeType, IsLock, IsBlock, LocksEarlier
<1>3. {l.block} # s.proposal
  BY <1>1, <1>2 DEF WellTyped, HashAt
<1>4. ~ \E w \in s.valid : {w.block} = s.proposal
  BY <1>1, <1>3 DEF LocksTimely
<1> QED
  BY <1>1, <1>3, <1>4 DEF PrevoteHash

LEMMA PrevoteSteady ==
    ASSUME NEW n, NEW O, NEW P, Environment(n, O, P),
           NEW s, WellTyped(s), Sound(n, s, O, P), Steady(s, O), LocksEarlier(s),
           NEW v, IsBallot(v), Current(s, v), v.validator = n, v.step = "prevote",
           ~s.prevoted, v.hash = PrevoteHash(s)
    PROVE  Pending(SignBallot(s, v), O, v)
<1> DEFINE t == SignBallot(s, v)
<1>1. /\ Changes(s, t, {"prevoted", "precommitted", "ballots"})
      /\ t.ballots = s.ballots \cup {v}
      /\ Blameless(t) /\ OneVoteEach(O \cup t.ballots) /\ CastBut(t, v)
      /\ LocksTimely(t)
      /\ \A step, hash : HasQuorum(t, step, hash) <=> HasQuorum(s, step, hash)
  BY FirstVote
<1> HIDE DEF t
<1>2. /\ t.height = s.height /\ t.round = s.round
      /\ t.proposal = s.proposal /\ t.locked = s.locked
  BY <1>1 DEF Changes, Fields
<1>3. v.hash = Nil \/ v.hash = s.proposal
  BY DEF PrevoteHash
<1>4. HeldBut(t, v)
  BY <1>1, <1>2, <1>3 DEF Steady, PrevotesHeld, HeldBut, Current
<1>5. PrecommitsBacked(t)
  BY <1>1, <1>2 DEF Steady, PrecommitsBacked, Current
<1>6. LockBut(t, v)
  BY <1>1, <1>2 DEF Steady, LockHeld, LockBut
<1>7. Bound(t)
  <2> SUFFICES ASSUME NEW u \in t.ballots, NEW w \in t.ballots, NEW x \in t.ballots,
                      u.step = "prevote", w.step = "precommit", u.hash # Nil,
                      u.hash = w.hash, u.height = w.height, u.round = w.round,
                      x.step = "prevote", x.height = u.height, x.round > u.round
               PROVE  x.hash = Nil
    BY DEF Bound
  <2>1. w \in s.ballots
    BY <1>1
  <2>2. /\ \A y \in s.ballots : NotAfter(y, s) /\ y.round \in Nat
        /\ s.round \in Nat /\ s.height \in Nat
    BY DEF Sound, OwnBallots, WellTyped, NodeType, AreBallots, IsBallot
  <2>3. u # v
    BY <1>1, <2>2 DEF NotAfter, Current
  <2>4. u \in s.ballots
    BY <1>1, <2>3
  <2>5. CASE x = v
    <3>1. u.height = s.height /\ w.height = s.height
      BY <2>5 DEF Current
    <3>2. s.locked # {}
      BY <2>1, <2>4, <3>1 DEF Steady, LockHeld
    <3> QED
      BY <2>5, <3>2, LockedPrevotesNil DEF Steady
  <2>6. CASE x \in s.ballots
    BY <2>1, <2>4, <2>6 DEF Steady, Bound
  <2> QED
    BY <1>1, <2>5, <2>6
<1> QED
  BY <1>1, <1>4, <1>5, <1>6, <1>7 DEF Pending, t

-----------------------------------------------------------------------------
(* Finalizing and importing.                                               *)

\* At a new height nothing has been signed, and the old locks are gone.
LEMMA NewHeightSteady ==
    ASSUME NEW n, NEW O, NEW P, NEW s, WellTyped(s), Sound(n, s, O, P), Steady(s, O),
           NEW t, t.height \in Nat, t.height > s.height, t.ballots = s.ballots,
           t.locked = {}, t.valid = {}, t.jailed = {}, t.evidence = {}
    PROVE  Steady(t, O)
<1>1. \A v \in s.ballots : v.height # t.height
  <2>1. s.height \in Nat /\ \A v \in s.ballots : v.height \in Nat /\ NotAfter(v, s)
    BY DEF WellTyped, NodeType, AreBallots, IsBallot, Sound, OwnBallots
  <2> QED
    BY <2>1 DEF NotAfter
<1>2. Blameless(t) /\ OneVoteEach(O \cup t.ballots) /\ Bound(t)
  BY DEF Steady, Blameless, Bound
<1>3. VotesCast(t) /\ PrevotesHeld(t) /\ PrecommitsBacked(t)
  BY <1>1 DEF VotesCast, PrevotesHeld, PrecommitsBacked, Current
<1>4. LocksTimely(t) /\ LockHeld(t)
  BY <1>1 DEF LocksTimely, LockHeld
<1> QED
  BY <1>2, <1>3, <1>4 DEF Steady

LEMMA TipLinks ==
    ASSUME NEW s, s.height \in Nat, AtTip(s), NEW b, b.parent = s.latest, b.height = s.height
    PROVE  Linked(b)
BY DEF AtTip, Linked

\* A block that extends the chain and links to something is the next one.
LEMMA NextOnly ==
    ASSUME NEW s, s.height \in Nat, AtTip(s),
           NEW b, b.height \in Nat, b.parent = s.latest, Linked(b)
    PROVE  b.height = s.height
<1>1. CASE s.latest = {} /\ s.height = 1
  BY <1>1 DEF Linked
<1>2. ASSUME NEW f \in s.blocks, s.latest = {f.block}, f.block.height = s.height - 1
      PROVE  b.height = s.height
  <2>1. PICK p \in b.parent : p.height = b.height - 1
    BY <1>2 DEF Linked
  <2>2. p = f.block
    BY <1>2, <2>1
  <2> QED
    BY <1>2, <2>1, <2>2
<1> QED
  BY <1>1, <1>2 DEF AtTip

LEMMA NewHeightChained ==
    ASSUME NEW O, NEW s, Chained(s, O), s.height \in Nat,
           NEW f, Certificate(f, O \cup s.ballots),
           f.block.parent = s.latest, f.block.height = s.height,
           NEW t, t.height = s.height + 1, t.ballots = s.ballots, t.latest = {f.block},
           t.blocks = {g \in s.blocks : g.block.height # f.block.height} \cup {f},
           t.commits \subseteq s.commits \cup {f}, t.proposal = {},
           t.proposals = s.proposals
    PROVE  Chained(t, O)
<1>1. \A g \in s.blocks : g.block.height \in Nat /\ g.block.height < s.height
  BY DEF Chained, AtTip
<1>2. t.blocks = s.blocks \cup {f}
  BY <1>1
<1>3. Certified(t, O)
  BY <1>2 DEF Chained, Certified
<1>4. Linked(f.block)
  BY TipLinks DEF Chained
<1>5. AllLinked(t)
  BY <1>4 DEF Chained, AllLinked
<1>6. AtTip(t)
  BY <1>1, <1>2 DEF AtTip
<1>7. Chain(t)
  <2> SUFFICES ASSUME NEW g \in t.blocks
               PROVE  \/ g.block.height = 1 /\ g.block.parent = Nil
                      \/ \E k \in t.blocks : /\ k.block.height = g.block.height - 1
                                             /\ g.block.parent = {k.block}
    BY DEF Chain
  <2>1. CASE g \in s.blocks
    BY <1>2, <2>1 DEF Chained, Chain
  <2>2. CASE g = f
    BY <1>2, <2>2 DEF Chained, AtTip, Nil
  <2> QED
    BY <1>2, <2>1, <2>2
<1>8. Numbered(t)
  <2>1. f \notin s.blocks /\ IsFiniteSet(s.blocks) /\ Cardinality(s.blocks) = s.height - 1
    BY <1>1 DEF Chained, Numbered
  <2>2. IsFiniteSet(t.blocks) /\ Cardinality(t.blocks) = t.height - 1
    <3> DEFINE B == s.blocks
    <3>1. IsFiniteSet(B \cup {f}) /\ Cardinality(B \cup {f}) = Cardinality(B) + 1
      <4> HIDE DEF B
      <4>1. IsFiniteSet(B) /\ f \notin B
        BY <2>1 DEF B
      <4> QED
        BY <4>1, FS_AddElement
    <3>2. Cardinality(B) = s.height - 1
      BY <2>1
    <3>3. t.blocks = B \cup {f} /\ t.height - 1 = (s.height - 1) + 1
      BY <1>2
    <3> HIDE DEF B
    <3> QED
      BY <3>1, <3>2, <3>3
  <2>3. \A g, k \in t.blocks : g.block.height = k.block.height => g = k
    BY <1>1, <1>2 DEF Chained, Numbered
  <2>4. ASSUME NEW h \in 1..(t.height - 1)
        PROVE  \E g \in t.blocks : g.block.height = h
    <3>1. CASE h = s.height
      BY <1>2, <3>1
    <3>2. CASE h \in 1..(s.height - 1)
      BY <1>2, <3>2 DEF Chained, Numbered
    <3> QED
      BY <3>1, <3>2
  <2> QED
    BY <2>2, <2>3, <2>4 DEF Numbered
<1> QED
  BY <1>3, <1>5, <1>6, <1>7, <1>8 DEF Chained

LEMMA FinalizeGood ==
    ASSUME NEW n, NEW O, NEW P, Environment(n, O, P), NEW s, Good(n, s, O, P),
           NEW hash, hash # Nil, HasQuorum(s, "precommit", hash)
    PROVE  LET t == Finalize(s, hash)
           IN  Good(n, t, O, P) /\ (t = s \/ t.proposal = {})
<1> DEFINE t == Finalize(s, hash)
<1>1. /\ WellTyped(s) /\ Sound(n, s, O, P) /\ Steady(s, O) /\ Chained(s, O)
      /\ IsNode(s) /\ s.height \in Nat /\ s.jailed = {} /\ s.evidence = {}
  BY DEF Good, WellTyped, NodeType, Steady, Blameless
<1>2. t = s \/ FinalizedTo(s, t, hash)
  BY <1>1, FinalizeChanges
<1>3. WellTyped(t) /\ Sound(n, t, O, P)
  BY <1>1, FinalizeTyped, FinalizeSound
<1> HIDE DEF t
<1>4. CASE FinalizedTo(s, t, hash)
  <2>1. /\ t.height = s.height + 1 /\ t.proposal = {} /\ t.locked = {} /\ t.valid = {}
        /\ t.ballots = s.ballots /\ t.proposals = s.proposals /\ t.evidence = {}
        /\ s.proposal = hash
    BY <1>4 DEF FinalizedTo, Changes, Fields
  <2>2. t.jailed = {}
    BY <1>1, <1>4 DEF FinalizedTo
  <2>3. PICK f : /\ f.block \in hash /\ t.latest = {f.block}
                 /\ f.block.parent = s.latest
                 /\ t.blocks = {g \in s.blocks : g.block.height # f.block.height} \cup {f}
                 /\ t.commits = s.commits \cup {f}
    BY <1>4 DEF FinalizedTo
  <2>4. hash = {f.block} /\ f.block.height = s.height /\ f.block.round = s.round
    BY <1>1, <2>1, <2>3 DEF WellTyped, HashAt, IsHash
  <2>5. Steady(t, O)
    BY <1>1, <2>1, <2>2, NewHeightSteady
  <2>6. Certificate(f, O \cup s.ballots)
    <3>1. Cardinality(SignersIn(O \cup s.ballots, "precommit", s.height, s.round, hash))
             >= QuorumOf(N)
      BY <1>1, QuorumSigned DEF Sound
    <3> QED
      BY <2>4, <3>1 DEF Certificate
  <2>7. Chained(t, O)
    BY <1>1, <2>1, <2>3, <2>4, <2>6, NewHeightChained
  <2> QED
    BY <1>3, <2>1, <2>5, <2>7 DEF Good, t
<1>5. CASE t = s
  BY <1>5 DEF t
<1> QED
  BY <1>2, <1>4, <1>5

LEMMA ImportFinalizedBlockGood ==
    ASSUME NEW n, NEW O, NEW P, Environment(n, O, P),
           NEW s, Good(n, s, O, P), PrevotedAtOnce(n, s),
           NEW f, IsBlock(f.block), f.block.height >= s.height,
           Linked(f.block), Certificate(f, O \cup s.ballots)
    PROVE  LET t == ImportFinalizedBlock(s, f)
           IN  Good(n, t, O, P) /\ PrevotedAtOnce(n, t)
<1> DEFINE t == ImportFinalizedBlock(s, f)
<1>1. /\ WellTyped(s) /\ Sound(n, s, O, P) /\ Steady(s, O) /\ Chained(s, O)
      /\ IsNode(s) /\ s.height \in Nat /\ s.jailed = {} /\ s.evidence = {}
      /\ f.block.height \in Nat
  BY DEF Good, WellTyped, NodeType, Steady, Blameless, IsBlock
<1>2. Changes(s, t, {"walCommit"}) \/ ImportedTo(s, t, f)
  BY <1>1, ImportFinalizedBlockSteps
<1>3. WellTyped(t) /\ Sound(n, t, O, P)
  BY <1>1, ImportFinalizedBlockTyped, ImportFinalizedBlockSound
<1> HIDE DEF t
<1>4. CASE Changes(s, t, {"walCommit"})
  <2>1. /\ t.height = s.height /\ t.round = s.round /\ t.ballots = s.ballots
        /\ t.votes = s.votes /\ t.jailed = s.jailed /\ t.evidence = s.evidence
        /\ t.proposal = s.proposal /\ t.locked = s.locked /\ t.valid = s.valid
        /\ t.prevoted = s.prevoted /\ t.precommitted = s.precommitted
    BY <1>4 DEF Changes, Fields
  <2>2. /\ t.proposals = s.proposals /\ t.blocks = s.blocks /\ t.commits = s.commits
        /\ t.latest = s.latest
    BY <1>4 DEF Changes, Fields
  <2>3. Steady(t, O)
    BY <1>1, <2>1, SteadyFrame
  <2>4. Chained(t, O)
    BY <1>1, <1>3, <2>1, <2>2, ChainedFrame
  <2> QED
    BY <1>3, <2>1, <2>3, <2>4 DEF Good, PrevotedAtOnce, t
<1>5. CASE ImportedTo(s, t, f)
  <2>1. f.block.height = s.height
    BY <1>1, <1>5, NextOnly DEF ImportedTo, Chained
  <2>2. /\ t.height = s.height + 1 /\ t.proposal = {} /\ t.locked = {} /\ t.valid = {}
        /\ t.ballots = s.ballots /\ t.proposals = s.proposals /\ t.commits = s.commits
        /\ t.evidence = s.evidence /\ t.jailed = s.jailed
    BY <1>5, <2>1 DEF ImportedTo, Changes, Fields
  <2>3. Steady(t, O)
    BY <1>1, <2>2, NewHeightSteady
  <2>4. Chained(t, O)
    BY <1>1, <1>5, <2>1, <2>2, NewHeightChained DEF ImportedTo
  <2> QED
    BY <1>3, <2>2, <2>3, <2>4 DEF Good, PrevotedAtOnce, t
<1> QED
  BY <1>2, <1>4, <1>5

-----------------------------------------------------------------------------
(* The handlers.                                                           *)

LEMMA PrecommittedGood ==
    ASSUME NEW n, NEW O, NEW P, Environment(n, O, P),
           NEW a, Good(n, a, O, P), PrevotedAtOnce(n, a),
           NEW hash, IsHash(hash), Precommits(n, a, hash)
    PROVE  LET b == Precommitted(n, a, hash)
           IN  Good(n, b, O, P) /\ PrevotedAtOnce(n, b)
<1> DEFINE v == Ballot(n, a, "precommit", hash)
           signed == SignBallot(a, v)
           b == RecordVote(signed, v)
<1>1. WellTyped(a) /\ Sound(n, a, O, P) /\ Steady(a, O) /\ Chained(a, O)
  BY DEF Good
<1>2. /\ v.step = "precommit" /\ v.hash = hash /\ v.validator = n
      /\ v.height = a.height /\ v.round = a.round
  BY DEF Ballot
<1>3. IsBallot(v)
  BY <1>1, BallotTyped DEF Precommits, LocalActive
<1>4. b = Precommitted(n, a, hash)
  BY DEF Precommitted
<1> HIDE DEF v
<1>5. Current(a, v)
  BY <1>2 DEF Current
<1>6. /\ Changes(a, signed, {"prevoted", "precommitted", "ballots"})
      /\ a.prevoted => signed.prevoted
      /\ a.ballots \subseteq signed.ballots
  BY <1>1, <1>2, <1>3, <1>5, FirstVote DEF Precommits
<1>7. Pending(signed, O, v)
  BY <1>1, <1>2, <1>3, <1>5, PrecommitSteady DEF Precommits
<1>8. WellTyped(signed)
  BY <1>1, <1>3, SignBallotTyped
<1>9. Sound(n, signed, O, P) /\ v \in signed.ballots /\ Current(signed, v)
  BY <1>1, <1>2, <1>3, <1>5, SignBallotSound DEF Precommits
<1> HIDE DEF signed
<1>10. /\ Steady(b, O)
       /\ Changes(signed, b, {"votes", "valid", "walValid", "locked", "walLocked"})
  BY <1>3, <1>7, <1>8, <1>9, RecordVoteSteady
<1>11. WellTyped(b) /\ Sound(n, b, O, P)
  BY <1>3, <1>8, <1>9, RecordVoteTyped, RecordVoteSound
<1> HIDE DEF b
<1>12. /\ b.proposal = a.proposal /\ b.proposals = a.proposals /\ b.height = a.height
       /\ b.blocks = a.blocks /\ b.commits = a.commits /\ b.latest = a.latest
       /\ a.ballots \subseteq b.ballots /\ (a.prevoted => b.prevoted)
  BY <1>6, <1>10 DEF Changes, Fields
<1>13. Chained(b, O)
  BY <1>1, <1>11, <1>12, ChainedFrame
<1>14. PrevotedAtOnce(n, b)
  BY <1>12 DEF PrevotedAtOnce
<1> QED
  BY <1>4, <1>10, <1>11, <1>13, <1>14 DEF Good

LEMMA HandleVoteActionsGood ==
    ASSUME NEW n, NEW O, NEW P, Environment(n, O, P),
           NEW s, WellTyped(s), Sound(n, s, O, P), Chained(s, O), PrevotedAtOnce(n, s),
           NEW v, Pending(s, O, v), v \in O \cup s.ballots, Current(s, v), IsBallot(v)
    PROVE  LET t == HandleVoteActions(n, s, v)
           IN  Good(n, t, O, P) /\ PrevotedAtOnce(n, t)
<1> DEFINE a == RecordVote(s, v)
           t == HandleVoteActions(n, s, v)
<1>1. IsNode(s) /\ IsHash(v.hash)
  BY DEF WellTyped, NodeType, IsBallot
<1>2. PICK b : /\ \/ b = a
                  \/ Precommits(n, a, v.hash) /\ b = Precommitted(n, a, v.hash)
               /\ \/ t = b
                  \/ /\ v.hash # Nil /\ HasQuorum(b, "precommit", v.hash)
                     /\ t = Finalize(b, v.hash)
  BY <1>1, HandleVoteActionsSteps
<1>3. WellTyped(a) /\ Sound(n, a, O, P)
  BY RecordVoteTyped, RecordVoteSound
<1>4. /\ Steady(a, O)
      /\ Changes(s, a, {"votes", "valid", "walValid", "locked", "walLocked"})
  BY RecordVoteSteady
<1> HIDE DEF a, t
<1>5. /\ a.proposal = s.proposal /\ a.proposals = s.proposals /\ a.height = s.height
      /\ a.blocks = s.blocks /\ a.commits = s.commits /\ a.latest = s.latest
      /\ a.ballots = s.ballots /\ a.prevoted = s.prevoted
  BY <1>4 DEF Changes, Fields
<1>6. Chained(a, O)
  BY <1>3, <1>5, ChainedFrame
<1>7. Good(n, a, O, P) /\ PrevotedAtOnce(n, a)
  BY <1>3, <1>4, <1>5, <1>6 DEF Good, PrevotedAtOnce
<1>8. Good(n, b, O, P) /\ PrevotedAtOnce(n, b)
  BY <1>1, <1>2, <1>7, PrecommittedGood
<1>9. CASE t = b
  BY <1>8, <1>9 DEF t
<1>10. CASE /\ v.hash # Nil /\ HasQuorum(b, "precommit", v.hash)
            /\ t = Finalize(b, v.hash)
  <2>1. Good(n, t, O, P) /\ (t = b \/ t.proposal = {})
    BY <1>8, <1>10, FinalizeGood
  <2> QED
    BY <1>8, <2>1 DEF PrevotedAtOnce, t
<1> QED
  BY <1>2, <1>9, <1>10

LEMMA EmitPrevoteGood ==
    ASSUME NEW n, NEW O, NEW P, Environment(n, O, P),
           NEW s, Good(n, s, O, P), n \in Validators /\ ~s.prevoted => LocksEarlier(s)
    PROVE  LET t == EmitPrevote(n, s)
           IN  Good(n, t, O, P) /\ PrevotedAtOnce(n, t)
<1> DEFINE hash == PrevoteHash(s)
           v == Ballot(n, s, "prevote", hash)
           signed == SignBallot(s, v)
           t == HandleVoteActions(n, signed, v)
<1>1. WellTyped(s) /\ Sound(n, s, O, P) /\ Steady(s, O) /\ Chained(s, O) /\ s.jailed = {}
  BY DEF Good, Steady, Blameless
<1>2. \/ (n \in Validators => s.prevoted) /\ EmitPrevote(n, s) = s
      \/ n \in Validators /\ ~s.prevoted /\ EmitPrevote(n, s) = t
  BY <1>1 DEF EmitPrevote, LocalActive
<1>3. CASE (n \in Validators => s.prevoted) /\ EmitPrevote(n, s) = s
  BY <1>3 DEF PrevotedAtOnce
<1>4. CASE n \in Validators /\ ~s.prevoted /\ EmitPrevote(n, s) = t
  <2>1. IsHash(hash)
    BY <1>1 DEF PrevoteHash, WellTyped, HashAt, IsHash
  <2>2. v.hash = PrevoteHash(s)
    BY DEF Ballot
  <2> HIDE DEF hash
  <2>3. IsBallot(v)
    BY <1>1, <1>4, <2>1, BallotTyped
  <2>4. v.step = "prevote" /\ v.validator = n /\ Current(s, v)
    BY DEF Ballot, Current
  <2> HIDE DEF v
  <2>5. WellTyped(signed)
    BY <1>1, <2>3, SignBallotTyped
  <2>6. Sound(n, signed, O, P) /\ v \in signed.ballots /\ Current(signed, v)
    BY <1>1, <2>3, <2>4, SignBallotSound
  <2>7. Pending(signed, O, v)
    BY <1>1, <1>4, <2>2, <2>3, <2>4, PrevoteSteady
  <2>8. /\ Changes(s, signed, {"prevoted", "precommitted", "ballots"})
        /\ signed.prevoted /\ s.ballots \subseteq signed.ballots
    BY <1>1, <1>4, <2>3, <2>4, FirstVote
  <2> HIDE DEF signed
  <2>9. Chained(signed, O)
    <3>1. /\ signed.blocks = s.blocks /\ signed.commits = s.commits
          /\ signed.latest = s.latest /\ signed.height = s.height
          /\ signed.proposal = s.proposal /\ signed.proposals = s.proposals
      BY <2>8 DEF Changes, Fields
    <3> QED
      BY <1>1, <2>5, <2>8, <3>1, ChainedFrame
  <2>10. PrevotedAtOnce(n, signed)
    BY <2>8 DEF PrevotedAtOnce
  <2>11. Good(n, t, O, P) /\ PrevotedAtOnce(n, t)
    BY <2>3, <2>5, <2>6, <2>7, <2>9, <2>10, HandleVoteActionsGood
  <2> HIDE DEF t
  <2> QED
    BY <1>4, <2>11
<1> QED
  BY <1>2, <1>3, <1>4

LEMMA AdvanceRoundGood ==
    ASSUME NEW n, NEW O, NEW P, Environment(n, O, P),
           NEW s, Good(n, s, O, P), s.round < MaxRound
    PROVE  LET t == AdvanceRound(s)
           IN  Good(n, t, O, P) /\ t.proposal = {}
<1> DEFINE t == AdvanceRound(s)
<1>1. /\ WellTyped(s) /\ Sound(n, s, O, P) /\ Steady(s, O) /\ Chained(s, O)
      /\ IsNode(s) /\ s.height \in Nat /\ s.round \in Nat
  BY DEF Good, WellTyped, NodeType
<1>2. /\ Changes(s, t, {"proposal", "votes", "prevoted", "precommitted", "round", "snap"})
      /\ t.round = s.round + 1 /\ t.proposal = {} /\ t.votes = {}
  BY <1>1, AdvanceRoundChanges
<1>3. WellTyped(t) /\ Sound(n, t, O, P)
  BY <1>1, AdvanceRoundTyped, AdvanceRoundSound
<1> HIDE DEF t
<1>4. /\ t.height = s.height /\ t.ballots = s.ballots /\ t.jailed = s.jailed
      /\ t.proposals = s.proposals /\ t.locked = s.locked /\ t.valid = s.valid
      /\ t.evidence = s.evidence /\ t.blocks = s.blocks /\ t.latest = s.latest
      /\ t.commits = s.commits
  BY <1>2 DEF Changes, Fields
<1>5. \A v \in s.ballots : ~Current(t, v)
  <2>1. \A v \in s.ballots : NotAfter(v, s) /\ v.height \in Nat /\ v.round \in Nat
    BY <1>1 DEF Sound, OwnBallots, WellTyped, AreBallots, IsBallot
  <2> QED
    BY <1>1, <1>2, <1>4, <2>1 DEF NotAfter, Current
<1>6. \A l \in s.locked : l.round # t.round
  <2>1. \A l \in s.locked : l.round \in Nat /\ l.round <= s.round
    BY <1>1 DEF WellTyped, IsLock, IsBlock, Sound, LocksSigned
  <2> QED
    BY <1>1, <1>2, <2>1
<1>7. VotesCast(t) /\ PrevotesHeld(t) /\ PrecommitsBacked(t)
  BY <1>4, <1>5 DEF VotesCast, PrevotesHeld, PrecommitsBacked
<1>8. LocksTimely(t) /\ LockHeld(t) /\ Bound(t)
  <2>1. LocksTimely(t)
    BY <1>1, <1>4, <1>6 DEF Steady, LocksTimely
  <2> QED
    BY <1>1, <1>4, <2>1 DEF Steady, LockHeld, Bound
<1>9. Steady(t, O)
  BY <1>1, <1>4, <1>7, <1>8 DEF Steady, Blameless
<1>10. Certified(t, O) /\ AllLinked(t) /\ AtTip(t) /\ Chain(t) /\ Numbered(t)
  BY <1>1, <1>2, <1>4 DEF Chained, Certified, AllLinked, AtTip, Chain, Numbered
<1> QED
  BY <1>2, <1>3, <1>9, <1>10 DEF Good, Chained, t

\* A node that had no proposal in this round takes one.
LEMMA ProposalTaken ==
    ASSUME NEW n, NEW O, NEW P, Environment(n, O, P),
           NEW s, Good(n, s, O, P), s.proposal = {}, NEW b, Linked(b),
           NEW t, WellTyped(t), Sound(n, t, O, P),
           Changes(s, t, {"protection", "proposal", "proposals"}),
           t.proposal = {b}, t.proposals \subseteq s.proposals \cup {b}
    PROVE  Good(n, t, O, P) /\ LocksEarlier(t)
<1>1. WellTyped(s) /\ Sound(n, s, O, P) /\ Steady(s, O) /\ Chained(s, O)
  BY DEF Good
<1>2. /\ t.height = s.height /\ t.round = s.round /\ t.ballots = s.ballots
      /\ t.votes = s.votes /\ t.jailed = s.jailed /\ t.evidence = s.evidence
      /\ t.locked = s.locked /\ t.valid = s.valid
      /\ t.prevoted = s.prevoted /\ t.precommitted = s.precommitted
      /\ t.blocks = s.blocks /\ t.commits = s.commits /\ t.latest = s.latest
  BY DEF Changes, Fields
<1>3. \A step, hash : HasQuorum(t, step, hash) <=> HasQuorum(s, step, hash)
  BY <1>2, SameQuorums
<1>4. LocksEarlier(t)
  <2>1. \A l \in s.locked : l.round # s.round
    BY <1>1 DEF Steady, LocksTimely
  <2>2. s.round \in Nat /\ \A l \in s.locked : l.round \in Nat /\ l.round <= s.round
    BY <1>1 DEF WellTyped, NodeType, IsLock, IsBlock, Sound, LocksSigned
  <2> QED
    BY <1>2, <2>1, <2>2 DEF LocksEarlier
<1>5. Blameless(t) /\ OneVoteEach(O \cup t.ballots) /\ VotesCast(t)
  BY <1>1, <1>2 DEF Steady, Blameless, VotesCast, Current
<1>6. PrevotesHeld(t)
  BY <1>1, <1>2 DEF Steady, PrevotesHeld, Current, Nil
<1>7. PrecommitsBacked(t)
  BY <1>1, <1>2, <1>3 DEF Steady, PrecommitsBacked, Current
<1>8. LocksTimely(t)
  BY <1>1, <1>2 DEF Steady, LocksTimely
<1>9. LockHeld(t) /\ Bound(t)
  BY <1>1, <1>2 DEF Steady, LockHeld, Bound
<1>10. Certified(t, O) /\ AtTip(t) /\ Chain(t) /\ Numbered(t)
  BY <1>1, <1>2 DEF Chained, Certified, AtTip, Chain, Numbered
<1>11. AllLinked(t)
  BY <1>1, <1>2 DEF Chained, AllLinked
<1> QED
  BY <1>4, <1>5, <1>6, <1>7, <1>8, <1>9, <1>10, <1>11 DEF Good, Steady, Chained

LEMMA MaybeProposeGood ==
    ASSUME NEW n, NEW O, NEW P, Environment(n, O, P),
           NEW s, Good(n, s, O, P), Protected(s), PrevotedAtOnce(n, s),
           NEW outcome \in Outcomes
    PROVE  LET t == MaybePropose(n, s, outcome)
           IN  Good(n, t, O, P) /\ PrevotedAtOnce(n, t)
<1> DEFINE t == MaybePropose(n, s, outcome)
<1>1. /\ WellTyped(s) /\ Sound(n, s, O, P) /\ Steady(s, O) /\ Chained(s, O)
      /\ IsNode(s) /\ s.height \in Nat
  BY DEF Good, WellTyped, NodeType
<1>2. WellTyped(t) /\ Sound(n, t, O, P)
  BY <1>1, MaybeProposeTyped, MaybeProposeSound
<1>3. CASE t \in {s, Spent(s), Halted(s)}
  <2>1. t = s \/ Changes(s, t, {"protection", "up"})
    BY <1>1, <1>3, SpentChanges DEF Changes
  <2> HIDE DEF t
  <2>2. /\ t.height = s.height /\ t.round = s.round /\ t.ballots = s.ballots
        /\ t.votes = s.votes /\ t.jailed = s.jailed /\ t.evidence = s.evidence
        /\ t.proposal = s.proposal /\ t.locked = s.locked /\ t.valid = s.valid
        /\ t.prevoted = s.prevoted /\ t.precommitted = s.precommitted
    BY <2>1 DEF Changes, Fields
  <2>3. /\ t.proposals = s.proposals /\ t.blocks = s.blocks /\ t.commits = s.commits
        /\ t.latest = s.latest
    BY <2>1 DEF Changes, Fields
  <2>4. Steady(t, O)
    BY <1>1, <2>2, SteadyFrame
  <2>5. Chained(t, O)
    BY <1>1, <1>2, <2>2, <2>3, ChainedFrame
  <2> QED
    BY <1>2, <2>2, <2>4, <2>5 DEF Good, PrevotedAtOnce, t
<1>4. CASE /\ MayPropose(n, s) /\ outcome \in Payloads
           /\ t = EmitPrevote(n, Offered(n, s, outcome))
  <2> DEFINE o == Offered(n, s, outcome)
             b == NewBlock(n, s, outcome)
  <2>1. WellTyped(o) /\ Sound(n, o, O, P)
    BY <1>1, <1>4, OfferedTyped, OfferedSound DEF MayPropose, LocalActive
  <2>2. /\ Changes(s, o, {"protection", "proposal", "proposals"})
        /\ o.proposal = {b} /\ o.proposals = s.proposals \cup {b}
    BY <1>1, OfferedChanges
  <2>3. b.parent = s.latest /\ b.height = s.height
    BY NewBlockFields
  <2>4. t = EmitPrevote(n, o)
    BY <1>4
  <2> HIDE DEF o, b
  <2>5. Linked(b)
    BY <1>1, <2>3, TipLinks DEF Chained
  <2>6. Good(n, o, O, P) /\ LocksEarlier(o)
    BY <1>4, <2>1, <2>2, <2>5, ProposalTaken DEF MayPropose
  <2> QED
    BY <2>4, <2>6, EmitPrevoteGood
<1> QED
  BY <1>3, <1>4, MaybeProposeSteps

(* Two proposals that pass validate_incoming_proposal in one round are of  *)
(* the same proposer, who signs one per height: nobody is accused.         *)
LEMMA ReceiveProposalGood ==
    ASSUME NEW n, NEW O, NEW P, Environment(n, O, P),
           NEW s, Good(n, s, O, P), PrevotedAtOnce(n, s),
           NEW b \in P, IsBlock(b), Current(s, b), ValidProposal(s, b), Linked(b)
    PROVE  LET t == ReceiveProposal(n, s, b)
           IN  Good(n, t, O, P) /\ PrevotedAtOnce(n, t)
<1> DEFINE t == ReceiveProposal(n, s, b)
           held == Held(s, b)
<1>1. WellTyped(s) /\ Sound(n, s, O, P) /\ IsNode(s)
  BY DEF Good, WellTyped, NodeType
<1>2. s.proposal \in {{}, {b}}
  <2> SUFFICES ASSUME s.proposal # {} PROVE s.proposal = {b}
    OBVIOUS
  <2>1. PICK c : s.proposal = {c} /\ c.height = s.height /\ c.round = s.round
    BY <1>1 DEF WellTyped, HashAt, IsHash, Nil
  <2>2. c \in P \cup s.proposals /\ c.proposer = ProposerFor(s, c.height, c.round)
    BY <1>1, <2>1 DEF Sound, ProposalsSigned
  <2>3. c = b
    BY <1>1, <2>1, <2>2 DEF Sound, ProposalsSigned, OneBlockEach, ValidProposal, Current
  <2> QED
    BY <2>1, <2>3
<1>3. \/ s.proposal = {} /\ t = EmitPrevote(n, held)
      \/ t = s
  BY <1>2, ReceiveProposalSteps
<1>4. CASE s.proposal = {} /\ t = EmitPrevote(n, held)
  <2>1. WellTyped(held) /\ Sound(n, held, O, P)
    BY <1>1, HeldTyped, HeldSound
  <2>2. Changes(s, held, {"proposal"}) /\ held.proposal = {b}
    BY <1>1, HeldChanges
  <2> HIDE DEF held, t
  <2>3. /\ Changes(s, held, {"protection", "proposal", "proposals"})
        /\ held.proposals = s.proposals
    BY <2>2 DEF Changes, Fields
  <2>4. Good(n, held, O, P) /\ LocksEarlier(held)
    BY <1>4, <2>1, <2>2, <2>3, ProposalTaken
  <2> QED
    BY <1>4, <2>4, EmitPrevoteGood DEF t
<1>5. CASE t = s
  BY <1>5
<1> QED
  BY <1>3, <1>4, <1>5

-----------------------------------------------------------------------------
(* The invariant.                                                          *)

Honest ==
    \A n \in Nodes : /\ Steady(node[n], Others(n)) /\ Chained(node[n], Others(n))
                     /\ PrevotedAtOnce(n, node[n])

HonestInv == VoteInv /\ (restarts = 0 => Honest)

\* One node has moved, and is good where it is.
GoodStep(n, s) ==
    /\ SoundStep(n, s) /\ Good(n, s, Others(n), OtherBlocks(n)) /\ PrevotedAtOnce(n, s)

LEMMA NodesGood ==
    ASSUME VoteInv, Honest, NEW n \in Nodes
    PROVE  /\ Good(n, node[n], Others(n), OtherBlocks(n))
           /\ PrevotedAtOnce(n, node[n]) /\ Protected(node[n])
           /\ Environment(n, Others(n), OtherBlocks(n))
           /\ WellTyped(node[n]) /\ NodeType(node[n])
BY NodesHave DEF Honest, Good

\* A good move from a good state is a good step.
LEMMA GoodStepIntro ==
    ASSUME NEW n, NEW t, NEW s, SoundStep(n, s),
           node' = [node EXCEPT ![n] = t], VoteInv, n \in Nodes,
           Good(n, t, Others(n), OtherBlocks(n)), PrevotedAtOnce(n, t)
    PROVE  GoodStep(n, t)
<1>1. DOMAIN node = Nodes
  BY DEF VoteInv, TypeInv
<1>2. node'[n] = t /\ node'[n] = s
  BY <1>1 DEF SoundStep
<1> QED
  BY <1>2 DEF GoodStep

LEMMA StartGood ==
    ASSUME VoteInv, Honest, NEW n \in Nodes, Start(n)
    PROVE  \E s : GoodStep(n, s)
<1> DEFINE O == Others(n)
           P == OtherBlocks(n)
           z == node[n]
           r == PersistSnapshot(Recovered(z))
           rec == RecoverSnapshot(z)
<1>1. PICK outcome \in Outcomes : Boot(n, outcome)
  BY DEF Start
<1>2. node' = [node EXCEPT ![n] = MaybePropose(n, r, outcome)]
  BY <1>1 DEF Boot
<1>3. PICK x : SoundStep(n, x)
  BY <1>1, BootSound
<1>4. /\ Good(n, z, O, P) /\ Protected(z) /\ Environment(n, O, P)
      /\ WellTyped(z) /\ NodeType(z) /\ Sound(n, z, O, P)
  BY NodesGood DEF Good
<1> HIDE DEF O, P
<1>5. WellTyped(r) /\ Sound(n, r, O, P)
  BY <1>4, RecoveredTyped, RecoveredSound
<1>6. Protected(r)
  BY <1>4, RecoveredType DEF Protected
<1>7. z = BlankNode
  BY DEF Start
<1>8. /\ z.ballots = {} /\ z.jailed = {} /\ z.blocks = {} /\ z.commits = {}
      /\ z.proposals = {} /\ z.latest = {} /\ z.walCommit = 0
      /\ z.snap.height = 1 /\ z.walLocked = {} /\ z.walValid = {}
  BY <1>7 DEF BlankNode, Nil
<1>9. /\ Changes(z, r, {"proposal", "votes", "prevoted", "precommitted", "up",
                        "evidence", "height", "round", "locked", "valid", "snap"})
      /\ r.height = rec.height /\ r.locked = rec.locked /\ r.valid = rec.valid
      /\ r.evidence = {} /\ r.proposal = {} /\ r.votes = {}
  BY <1>4, RecoveredChanges DEF NodeType
<1>10. rec.height = 1 /\ rec.locked = {} /\ rec.valid = {}
  BY <1>8 DEF RecoverSnapshot
<1> HIDE DEF z, r, rec
<1>11. /\ r.ballots = {} /\ r.jailed = {} /\ r.blocks = {} /\ r.commits = {}
       /\ r.proposals = {} /\ r.latest = {} /\ r.height = 1 /\ r.locked = {} /\ r.valid = {}
  BY <1>8, <1>9, <1>10 DEF Changes, Fields
<1>12. OneVoteEach(O \cup r.ballots)
  BY <1>4, <1>8, <1>11 DEF Good, Steady
<1>13. Steady(r, O)
  BY <1>9, <1>11, <1>12 DEF Steady, Blameless, VotesCast, PrevotesHeld, PrecommitsBacked,
                            LocksTimely, LockHeld, Bound
<1>14. Chained(r, O)
  BY <1>9, <1>11, FS_EmptySet
  DEF Chained, Certified, AllLinked, AtTip, Chain, Numbered
<1>15. Good(n, r, O, P) /\ PrevotedAtOnce(n, r)
  BY <1>5, <1>9, <1>13, <1>14 DEF Good, PrevotedAtOnce
<1>16. /\ Good(n, MaybePropose(n, r, outcome), O, P)
       /\ PrevotedAtOnce(n, MaybePropose(n, r, outcome))
  BY <1>4, <1>6, <1>15, MaybeProposeGood
<1> QED
  BY <1>2, <1>3, <1>16, GoodStepIntro DEF O, P

LEMMA TimeoutGood ==
    ASSUME VoteInv, Honest, NEW n \in Nodes, Timeout(n)
    PROVE  \E s : GoodStep(n, s)
<1> DEFINE O == Others(n)
           P == OtherBlocks(n)
           s == node[n]
           e == EmitPrevote(n, s)
           a == AdvanceRound(e)
<1>1. /\ Good(n, s, O, P) /\ PrevotedAtOnce(n, s) /\ Protected(s) /\ Environment(n, O, P)
      /\ WellTyped(s) /\ NodeType(s)
  BY NodesGood
<1>2. PICK outcome \in Outcomes : node' = [node EXCEPT ![n] = MaybePropose(n, a, outcome)]
  BY DEF Timeout
<1>3. PICK x : SoundStep(n, x)
  BY TimeoutSound
<1>4. s.round < MaxRound /\ s.round \in Nat
  BY <1>1 DEF Timeout, NodeType
<1> HIDE DEF O, P, s
<1>5. n \in Validators /\ ~s.prevoted => LocksEarlier(s)
  <2> SUFFICES ASSUME s.proposal = {} PROVE LocksEarlier(s)
    BY <1>1 DEF PrevotedAtOnce
  <2>1. \A l \in s.locked : l.round # s.round
    BY <1>1 DEF Good, Steady, LocksTimely
  <2>2. \A l \in s.locked : l.round \in Nat /\ l.round <= s.round
    BY <1>1 DEF Good, WellTyped, IsLock, IsBlock, Sound, LocksSigned
  <2> QED
    BY <1>4, <2>1, <2>2 DEF LocksEarlier
<1>6. Good(n, e, O, P)
  BY <1>1, <1>5, EmitPrevoteGood
<1>7. e.round < MaxRound
  <2>1. e.round \in {s.round, 0}
    BY <1>1, EmitPrevoteTyped
  <2> QED
    BY <1>4, <2>1, BoundsAssumption
<1>8. Protected(e) /\ NodeType(e)
  BY <1>1, EmitPrevoteType DEF Protected
<1> HIDE DEF e
<1>9. Good(n, a, O, P) /\ a.proposal = {}
  BY <1>1, <1>6, <1>7, AdvanceRoundGood
<1>10. Protected(a)
  BY <1>8, AdvanceRoundType DEF Protected
<1>11. PrevotedAtOnce(n, a)
  BY <1>9 DEF PrevotedAtOnce
<1> HIDE DEF a
<1>12. /\ Good(n, MaybePropose(n, a, outcome), O, P)
       /\ PrevotedAtOnce(n, MaybePropose(n, a, outcome))
  BY <1>1, <1>9, <1>10, <1>11, MaybeProposeGood
<1> QED
  BY <1>2, <1>3, <1>12, GoodStepIntro DEF O, P

\* What a node sends was certified, and linked, by what is signed.
LEMMA CommitsTravel ==
    ASSUME VoteInv, Honest, NEW m \in Nodes, NEW n \in Nodes, NEW f \in node[m].commits
    PROVE  /\ IsBlock(f.block) /\ Linked(f.block)
           /\ Certificate(f, Others(n) \cup node[n].ballots)
<1>1. WellTyped(node[m]) /\ Chained(node[m], Others(m))
  BY NodesHave DEF Honest
<1>2. Certificate(f, Others(m) \cup node[m].ballots)
  BY <1>1 DEF Chained, Certified
<1>3. Others(m) \cup node[m].ballots = AllBallots /\ Others(n) \cup node[n].ballots = AllBallots
  BY AllBallotsSplit
<1> QED
  BY <1>1, <1>2, <1>3 DEF WellTyped, AreFinalized, Chained, AllLinked

LEMMA NextGood ==
    ASSUME VoteInv, Honest, Next, restarts = 0, restarts' = 0
    PROVE  \E n \in Nodes : \E s : GoodStep(n, s)
<1>1. ASSUME NEW n \in Nodes, Start(n)
      PROVE  \E s : GoodStep(n, s)
  BY <1>1, StartGood
<1>2. ASSUME NEW n \in Nodes, Restart(n)
      PROVE  FALSE
  BY <1>2 DEF Restart
<1>3. ASSUME NEW n \in Nodes, OnProposal(n)
      PROVE  \E s : GoodStep(n, s)
  <2>1. PICK m \in Nodes \ {n} : \E b \in node[m].proposals :
           /\ Current(node[n], b) /\ ValidProposal(node[n], b)
           /\ node' = [node EXCEPT ![n] = ReceiveProposal(n, node[n], b)]
    BY <1>3 DEF OnProposal, Peers
  <2>2. PICK b \in node[m].proposals :
           /\ Current(node[n], b) /\ ValidProposal(node[n], b)
           /\ node' = [node EXCEPT ![n] = ReceiveProposal(n, node[n], b)]
    BY <2>1
  <2>3. IsBlock(b) /\ b \in OtherBlocks(n)
    BY NodesHave DEF WellTyped, AreBlocks, OtherBlocks
  <2>4. Linked(b)
    BY DEF Honest, Chained, AllLinked
  <2>5. SoundStep(n, ReceiveProposal(n, node[n], b))
    BY <2>2, <2>3, NodesHave, ReceiveProposalTyped, ReceiveProposalSound DEF SoundStep
  <2>6. GoodStep(n, ReceiveProposal(n, node[n], b))
    BY <2>2, <2>3, <2>4, <2>5, NodesGood, ReceiveProposalGood DEF GoodStep
  <2> QED
    BY <2>6
<1>4. ASSUME NEW n \in Nodes, OnVote(n)
      PROVE  \E s : GoodStep(n, s)
  <2>1. PICK m \in Nodes \ {n} : \E v \in node[m].ballots :
           /\ Current(node[n], v)
           /\ node' = [node EXCEPT ![n] = HandleVoteActions(n, node[n], v)]
    BY <1>4 DEF OnVote, Peers
  <2>2. PICK v \in node[m].ballots :
           /\ Current(node[n], v)
           /\ node' = [node EXCEPT ![n] = HandleVoteActions(n, node[n], v)]
    BY <2>1
  <2>3. IsBallot(v) /\ v \in Others(n) \cup node[n].ballots
    BY NodesHave DEF WellTyped, AreBallots, Others
  <2>4. SoundStep(n, HandleVoteActions(n, node[n], v))
    BY <2>2, <2>3, NodesHave, HandleVoteActionsTyped, HandleVoteActionsSound DEF SoundStep
  <2>5. /\ WellTyped(node[n]) /\ Sound(n, node[n], Others(n), OtherBlocks(n))
        /\ Steady(node[n], Others(n)) /\ Chained(node[n], Others(n))
        /\ PrevotedAtOnce(n, node[n]) /\ Environment(n, Others(n), OtherBlocks(n))
    BY NodesGood DEF Good
  <2>6. Pending(node[n], Others(n), v)
    BY <2>5, SteadyIsPending
  <2>7. GoodStep(n, HandleVoteActions(n, node[n], v))
    BY <2>2, <2>3, <2>4, <2>5, <2>6, HandleVoteActionsGood DEF GoodStep
  <2> QED
    BY <2>7
<1>5. ASSUME NEW n \in Nodes, OnCommit(n)
      PROVE  \E s : GoodStep(n, s)
  <2>1. PICK m \in Nodes : \E f \in node[m].commits :
           /\ f.block.height >= node[n].height
           /\ node' = [node EXCEPT ![n] = ImportFinalizedBlock(node[n], f)]
    BY <1>5 DEF OnCommit, Peers
  <2>2. PICK f \in node[m].commits :
           /\ f.block.height >= node[n].height
           /\ node' = [node EXCEPT ![n] = ImportFinalizedBlock(node[n], f)]
    BY <2>1
  <2>3. /\ IsBlock(f.block) /\ Linked(f.block)
        /\ Certificate(f, Others(n) \cup node[n].ballots)
    BY CommitsTravel
  <2>4. SoundStep(n, ImportFinalizedBlock(node[n], f))
    BY <2>2, <2>3, NodesHave, ImportFinalizedBlockTyped, ImportFinalizedBlockSound
    DEF SoundStep
  <2>5. GoodStep(n, ImportFinalizedBlock(node[n], f))
    BY <2>2, <2>3, <2>4, NodesGood, ImportFinalizedBlockGood DEF GoodStep
  <2> QED
    BY <2>5
<1> QED
  BY <1>1, <1>2, <1>3, <1>4, <1>5, TimeoutGood DEF Next

LEMMA HonestStep ==
    ASSUME VoteInv, VoteInv', Honest, NEW n \in Nodes, NEW s, GoodStep(n, s)
    PROVE  Honest'
<1>1. /\ node'[n] = s
      /\ \A m \in Nodes \ {n} : node'[m] = node[m]
  BY DEF GoodStep, SoundStep, VoteInv, TypeInv
<1>2. Others(n)' = Others(n)
  BY <1>1 DEF Others
<1>3. /\ Steady(s, Others(n)) /\ Chained(s, Others(n)) /\ PrevotedAtOnce(n, s)
      /\ node[n].ballots \subseteq s.ballots
  BY DEF GoodStep, Good, SoundStep, Moves
<1>4. ASSUME NEW m \in Nodes \ {n}
      PROVE  /\ Steady(node'[m], Others(m)') /\ Chained(node'[m], Others(m)')
             /\ PrevotedAtOnce(m, node'[m])
  <2> DEFINE z == node[m]
             O == Others(m)
             OO == Others(m)'
             V == O \cup z.ballots
             W == OO \cup z.ballots
  <2>1. Steady(z, O) /\ Chained(z, O) /\ PrevotedAtOnce(m, z)
    BY DEF Honest
  <2>2. O \subseteq OO
    BY <1>1, <1>3 DEF Others
  <2>3. W \subseteq Others(n) \cup s.ballots
    BY <1>1 DEF Others
  <2>4. \A v \in W : v.validator \in Validators
    <3> SUFFICES ASSUME NEW v \in W PROVE v.validator \in Validators
      OBVIOUS
    <3>1. PICK k \in Nodes : v \in node'[k].ballots
      BY <1>1 DEF Others
    <3>2. WellTyped(node'[k])
      BY DEF VoteInv, TypeInv
    <3> QED
      BY <3>1, <3>2 DEF WellTyped, AreBallots, IsBallot
  <2>5. V \subseteq W
    BY <2>2
  <2>6. OneVoteEach(W)
    BY <1>3, <2>3 DEF Steady, OneVoteEach
  <2>7. Steady(z, OO)
    BY <2>1, <2>6 DEF Steady
  <2>8. Certified(z, OO)
    <3> SUFFICES ASSUME NEW f \in z.commits \cup z.blocks PROVE Certificate(f, W)
      BY DEF Certified
    <3>1. Certificate(f, V)
      BY <2>1 DEF Chained, Certified
    <3> HIDE DEF V, W
    <3> QED
      BY <2>4, <2>5, <3>1, CertificateMonotone
  <2>9. Chained(z, OO)
    BY <2>1, <2>8 DEF Chained
  <2> QED
    BY <1>1, <2>1, <2>7, <2>9
<1> QED
  BY <1>1, <1>2, <1>3, <1>4 DEF Honest

LEMMA HonestInvNext == HonestInv /\ [Next]_vars => HonestInv'
<1> SUFFICES ASSUME HonestInv, [Next]_vars PROVE HonestInv'
  OBVIOUS
<1>1. VoteInv /\ VoteInv'
  BY VoteInvNext DEF HonestInv
<1>2. ASSUME restarts' = 0 PROVE Honest'
  <2>1. CASE UNCHANGED vars
    BY <1>2, <2>1 DEF HonestInv, Honest, Others, vars
  <2>2. CASE Next
    <3>1. restarts = 0
      <4>1. restarts \in Nat
        BY <1>1 DEF VoteInv, TypeInv
      <4>2. restarts' = restarts \/ restarts' = restarts + 1
        BY <2>2 DEF Next, Start, Restart, OnProposal, OnVote, OnCommit, Timeout
      <4> QED
        BY <1>2, <4>1, <4>2
    <3>2. Honest
      BY <3>1 DEF HonestInv
    <3> QED
      BY <1>1, <1>2, <2>2, <3>1, <3>2, NextGood, HonestStep
  <2> QED
    BY <2>1, <2>2
<1> QED
  BY <1>1, <1>2 DEF HonestInv

LEMMA HonestInvInit == Init => HonestInv
<1> SUFFICES ASSUME Init PROVE VoteInv /\ Honest
  BY DEF HonestInv
<1>1. VoteInv
  BY VoteInvInit
<1>2. ASSUME NEW n \in Nodes
      PROVE  /\ Steady(node[n], Others(n)) /\ Chained(node[n], Others(n))
             /\ PrevotedAtOnce(n, node[n])
  <2> DEFINE z == BlankNode
  <2>1. \A m \in Nodes : node[m] = z
    BY DEF Init
  <2>2. /\ z.ballots = {} /\ z.jailed = {} /\ z.blocks = {} /\ z.commits = {}
        /\ z.proposals = {} /\ z.proposal = {} /\ z.latest = {} /\ z.height = 1
        /\ z.locked = {} /\ z.valid = {} /\ z.evidence = {}
    BY DEF BlankNode, Nil
  <2> HIDE DEF z
  <2>3. Others(n) = {}
    BY <2>1, <2>2 DEF Others
  <2>4. Steady(z, {})
    BY <2>2 DEF Steady, Blameless, OneVoteEach, VotesCast, PrevotesHeld, PrecommitsBacked,
                LocksTimely, LockHeld, Bound
  <2>5. Chained(z, {}) /\ PrevotedAtOnce(n, z)
    BY <2>2, FS_EmptySet
    DEF Chained, Certified, AllLinked, AtTip, Chain, Numbered, PrevotedAtOnce
  <2> QED
    BY <2>1, <2>3, <2>4, <2>5
<1> QED
  BY <1>1, <1>2 DEF Honest

-----------------------------------------------------------------------------
(* The theorems.                                                           *)

(* As long as nobody has restarted no validator is accused and none is     *)
(* jailed: record_vote finds no two votes of one validator, step and round *)
(* that differ, and on_proposal no two proposals, whatever is lost,        *)
(* repeated or reordered.                                                  *)
THEOREM NoFalseAccusationTheorem == Spec => []NoFalseAccusation
<1>1. HonestInv => NoFalseAccusation
  BY DEF HonestInv, Honest, Steady, Blameless, NoFalseAccusation
<1> QED
  BY <1>1, HonestInvInit, HonestInvNext, PTL DEF Spec

(* The locking rule of emit_prevote binds: without restarts, a validator   *)
(* that has prevoted and precommitted a block prevotes only NIL in every   *)
(* later round of that height.                                             *)
THEOREM LockBindsTheorem == Spec => []LockBinds
<1>1. HonestInv => LockBinds
  <2> SUFFICES ASSUME HonestInv, restarts = 0, NEW n \in Nodes
               PROVE  Bound(node[n])
    BY DEF LockBinds, Bound
  <2> QED
    BY DEF HonestInv, Honest, Steady
<1> QED
  BY <1>1, HonestInvInit, HonestInvNext, PTL DEF Spec

(* Without restarts every node's chain starts at height 1, has no gaps and *)
(* is linked by parent hashes, whether finalize stored a block or          *)
(* import_external_finalized_block did.                                    *)
THEOREM ChainLinkedTheorem == Spec => [](restarts = 0 => ChainLinked)
<1>1. HonestInv => (restarts = 0 => ChainLinked)
  <2> SUFFICES ASSUME HonestInv, restarts = 0, NEW n \in Nodes
               PROVE  Chain(node[n])
    BY DEF ChainLinked, Chain
  <2> QED
    BY DEF HonestInv, Honest, Chained
<1> QED
  BY <1>1, HonestInvInit, HonestInvNext, PTL DEF Spec

\* Who is among the signers has signed such a vote.
LEMMA SignerSigned ==
    ASSUME VoteInv, NEW step, NEW h, NEW r, NEW hash,
           NEW x \in SignersIn(AllBallots, step, h, r, hash)
    PROVE  x \in Nodes /\ \E v \in node[x].ballots :
              /\ v.validator = x /\ v.step = step /\ v.height = h /\ v.round = r
              /\ v.hash = hash /\ IsBallot(v)
<1>1. PICK v \in AllBallots : /\ v.validator = x /\ v.step = step /\ v.height = h
                              /\ v.round = r /\ v.hash = hash
  BY DEF SignersIn, Voters
<1>2. PICK k \in Nodes : v \in node[k].ballots
  BY DEF AllBallots
<1>3. v.validator = k /\ IsBallot(v)
  BY <1>2, NodesHave DEF Sound, OwnBallots, WellTyped, AreBallots
<1> QED
  BY <1>1, <1>2, <1>3

LEMMA SignersValidate ==
    ASSUME VoteInv, NEW step, NEW h, NEW r, NEW hash
    PROVE  SignersIn(AllBallots, step, h, r, hash) \in SUBSET Validators
<1>1. ASSUME NEW x \in SignersIn(AllBallots, step, h, r, hash)
      PROVE  x \in Validators
  BY SignerSigned DEF IsBallot
<1> QED
  BY <1>1

\* What a certificate stands for: a quorum of precommits, and behind each
\* of them a quorum of prevotes.
LEMMA CertificateBacked ==
    ASSUME VoteInv, Honest, NEW m \in Nodes, NEW f \in node[m].blocks
    PROVE  LET h == f.block.height
               r == f.block.round
               hash == {f.block}
           IN  /\ r \in Nat
               /\ Cardinality(SignersIn(AllBallots, "precommit", h, r, hash)) >= QuorumOf(N)
               /\ Cardinality(SignersIn(AllBallots, "prevote", h, r, hash)) >= QuorumOf(N)
<1> DEFINE h == f.block.height
           r == f.block.round
           hash == {f.block}
           A == SignersIn(AllBallots, "precommit", h, r, hash)
<1>1. Cardinality(A) >= QuorumOf(N)
  <2>1. Certificate(f, Others(m) \cup node[m].ballots)
    BY DEF Honest, Chained, Certified
  <2> QED
    BY <2>1, AllBallotsSplit DEF Certificate
<1>2. A \in SUBSET Validators
  BY SignersValidate
<1>3. PICK x : x \in A
  <2> HIDE DEF A
  <2> QED
    BY <1>1, <1>2, ThreeQuorumsMeet
<1>4. PICK v \in node[x].ballots : /\ x \in Nodes /\ v.step = "precommit" /\ v.height = h
                                   /\ v.round = r /\ v.hash = hash /\ IsBallot(v)
  BY <1>3, SignerSigned
<1>5. r \in Nat
  BY <1>4, BoundsAssumption DEF IsBallot
<1>6. node[x].jailed = {}
  BY <1>4 DEF Honest, Steady, Blameless
<1>7. Cardinality(SignersIn(Others(x) \cup node[x].ballots, "prevote",
                            v.height, v.round, v.hash)) >= QuorumOf(N)
  BY <1>4, <1>6, NodesHave DEF Sound, PolkasSigned
<1>8. Cardinality(SignersIn(AllBallots, "prevote", h, r, hash)) >= QuorumOf(N)
  BY <1>4, <1>7, AllBallotsSplit
<1> QED
  BY <1>1, <1>5, <1>8

(* Blocks finalized in one round are the same: two quorums share a         *)
(* validator, which precommits once.  A block finalized in a later round   *)
(* is the same as well: the quorum that precommitted the first, the one    *)
(* that prevoted it and the one that prevoted the second share a           *)
(* validator, and the lock kept that one from prevoting a second block.    *)
LEMMA CertificatesAgree ==
    ASSUME VoteInv, Honest, NEW m \in Nodes, NEW n \in Nodes,
           NEW f \in node[m].blocks, NEW g \in node[n].blocks,
           f.block.height = g.block.height, f.block.round <= g.block.round
    PROVE  f.block = g.block
<1> DEFINE h == f.block.height
           r == f.block.round
           q == g.block.round
           A == SignersIn(AllBallots, "precommit", h, r, {f.block})
           B == SignersIn(AllBallots, "prevote", h, r, {f.block})
           C == SignersIn(AllBallots, "precommit", h, q, {g.block})
           D == SignersIn(AllBallots, "prevote", h, q, {g.block})
<1>1. /\ r \in Nat /\ q \in Nat
      /\ Cardinality(A) >= QuorumOf(N) /\ Cardinality(B) >= QuorumOf(N)
      /\ Cardinality(C) >= QuorumOf(N) /\ Cardinality(D) >= QuorumOf(N)
  BY CertificateBacked
<1>2. /\ A \in SUBSET Validators /\ B \in SUBSET Validators
      /\ C \in SUBSET Validators /\ D \in SUBSET Validators
  BY SignersValidate
<1>3. CASE r = q
  <2>1. PICK x : x \in A /\ x \in C
    <3> HIDE DEF A, B, C, D
    <3> QED
      BY <1>1, <1>2, ThreeQuorumsMeet
  <2>2. PICK v \in node[x].ballots : /\ x \in Nodes /\ v.validator = x /\ v.height = h
                                     /\ v.step = "precommit" /\ v.round = r
                                     /\ v.hash = {f.block}
    BY <2>1, SignerSigned
  <2>3. PICK w \in node[x].ballots : /\ w.validator = x /\ w.height = h
                                     /\ w.step = "precommit" /\ w.round = q
                                     /\ w.hash = {g.block}
    BY <2>1, SignerSigned
  <2>4. v = w
    BY <1>3, <2>2, <2>3 DEF Honest, Steady, OneVoteEach
  <2> QED
    BY <2>2, <2>3, <2>4
<1>4. CASE r < q
  <2>1. PICK x : x \in A /\ x \in B /\ x \in D
    <3> HIDE DEF A, B, C, D
    <3> QED
      BY <1>1, <1>2, ThreeQuorumsMeet
  <2>2. PICK v \in node[x].ballots : /\ x \in Nodes /\ v.height = h
                                     /\ v.step = "precommit" /\ v.round = r
                                     /\ v.hash = {f.block}
    BY <2>1, SignerSigned
  <2>3. PICK u \in node[x].ballots : /\ u.height = h /\ u.step = "prevote" /\ u.round = r
                                     /\ u.hash = {f.block}
    BY <2>1, SignerSigned
  <2>4. PICK w \in node[x].ballots : /\ w.height = h /\ w.step = "prevote" /\ w.round = q
                                     /\ w.hash = {g.block}
    BY <2>1, SignerSigned
  <2>5. Bound(node[x])
    BY <2>2 DEF Honest, Steady
  <2>6. w.hash = Nil
    BY <1>1, <1>4, <2>2, <2>3, <2>4, <2>5 DEF Bound, Nil
  <2> QED
    BY <2>4, <2>6 DEF Nil
<1> QED
  BY <1>1, <1>3, <1>4

(* Agreement: as long as nobody has restarted, all nodes finalize the same *)
(* block at every height, for any number of validators and observers, any  *)
(* connections and any loss, duplication or delay of messages, and         *)
(* although a validator that precommits a block it has not received takes  *)
(* no lock.                                                                *)
THEOREM AgreementTheorem == Spec => [](restarts = 0 => Agreement)
<1>1. ASSUME VoteInv, Honest PROVE Agreement
  <2> SUFFICES ASSUME NEW m \in Nodes, NEW n \in Nodes,
                      NEW f \in node[m].blocks, NEW g \in node[n].blocks,
                      f.block.height = g.block.height
               PROVE  f.block = g.block
    BY DEF Agreement
  <2>1. f.block.round \in Nat /\ g.block.round \in Nat
    BY <1>1, CertificateBacked
  <2>2. CASE f.block.round <= g.block.round
    BY <1>1, <2>2, CertificatesAgree
  <2>3. CASE g.block.round <= f.block.round
    BY <1>1, <2>3, CertificatesAgree
  <2> QED
    BY <2>1, <2>2, <2>3
<1>2. HonestInv => (restarts = 0 => Agreement)
  BY <1>1 DEF HonestInv
<1> QED
  BY <1>2, HonestInvInit, HonestInvNext, PTL DEF Spec

-----------------------------------------------------------------------------
(* Consensus implements Finality: the blocks the nodes have finalized are  *)
(* copies of one ledger.                                                   *)

CONSTANT Blocks     \* any set that holds the blocks finalized

\* Finality over Blocks; F is Finality over the blocks of two heights.
G == INSTANCE Finality WITH
        Nodes  <- Nodes,
        Block  <- Blocks,
        ledger <- [n \in Nodes |-> Ledger(node[n].blocks)]

(* A handler finalizes one block at most.                                  *)

Same(s, t) == t.blocks = s.blocks /\ t.height = s.height /\ t.latest = s.latest

Grown(s, t, f) ==
    /\ f.block.height = s.height
    /\ t.height = s.height + 1 /\ t.blocks = s.blocks \cup {f}

Grows(s, t) == Same(s, t) \/ \E f : Grown(s, t, f)

\* What growing depends on.
LEMMA GrowsFrom ==
    ASSUME NEW r, NEW s, NEW t, Same(r, s), Grows(s, t)
    PROVE  Grows(r, t)
BY DEF Grows, Same, Grown

\* A block at the height being decided replaces no other.
LEMMA NothingReplaced ==
    ASSUME NEW s, s.height \in Nat, AtTip(s), NEW f, f.block.height = s.height
    PROVE  {g \in s.blocks : g.block.height # f.block.height} \cup {f} = s.blocks \cup {f}
BY DEF AtTip

LEMMA FinalizeGrows ==
    ASSUME NEW s, WellTyped(s), AtTip(s), NEW hash, hash # Nil
    PROVE  Grows(s, Finalize(s, hash))
<1> DEFINE t == Finalize(s, hash)
<1>1. IsNode(s) /\ s.height \in Nat
  BY DEF WellTyped, NodeType
<1>2. t = s \/ FinalizedTo(s, t, hash)
  BY <1>1, FinalizeChanges
<1> HIDE DEF t
<1>3. CASE FinalizedTo(s, t, hash)
  <2>1. PICK f : /\ f.block \in hash
                 /\ t.blocks = {g \in s.blocks : g.block.height # f.block.height} \cup {f}
    BY <1>3 DEF FinalizedTo
  <2>2. f.block.height = s.height
    BY <1>3, <2>1 DEF FinalizedTo, WellTyped, HashAt
  <2>3. Grown(s, t, f)
    BY <1>1, <1>3, <2>1, <2>2, NothingReplaced DEF Grown, FinalizedTo
  <2> QED
    BY <2>3 DEF Grows, t
<1> QED
  BY <1>2, <1>3 DEF Grows, Same, t

\* Nothing is finalized on a vote for NIL.
LEMMA HandleVoteActionsGrows ==
    ASSUME NEW n, NEW s, WellTyped(s), AtTip(s), NEW v, IsBallot(v)
    PROVE  LET t == HandleVoteActions(n, s, v)
           IN  Grows(s, t) /\ (v.hash = Nil => Same(s, t))
<1> DEFINE a == RecordVote(s, v)
           t == HandleVoteActions(n, s, v)
<1>1. IsNode(s) /\ IsHash(v.hash)
  BY DEF WellTyped, NodeType, IsBallot
<1>2. PICK b : /\ \/ b = a
                  \/ Precommits(n, a, v.hash) /\ b = Precommitted(n, a, v.hash)
               /\ \/ t = b
                  \/ v.hash # Nil /\ t = Finalize(b, v.hash)
  BY <1>1, HandleVoteActionsSteps
<1>3. WellTyped(a) /\ IsNode(a)
  BY RecordVoteTyped DEF WellTyped, NodeType
<1>4. Changes(s, a, {"evidence", "votes", "valid", "walValid", "locked", "walLocked"})
  BY <1>1, RecordVoteChanges DEF Changes
<1> HIDE DEF a, t
<1>5. CASE b = a
  <2>1. Same(s, b) /\ WellTyped(b)
    BY <1>3, <1>4, <1>5 DEF Changes, Fields, Same
  <2>2. AtTip(b)
    BY <2>1 DEF AtTip, Same
  <2>3. t = b \/ (v.hash # Nil /\ Grows(b, t))
    BY <1>2, <2>1, <2>2, FinalizeGrows
  <2> QED
    BY <2>1, <2>3, GrowsFrom DEF Grows, Same, t
<1>6. CASE Precommits(n, a, v.hash) /\ b = Precommitted(n, a, v.hash)
  <2> DEFINE p == Ballot(n, a, "precommit", v.hash)
             signed == SignBallot(a, p)
  <2>1. IsBallot(p)
    BY <1>1, <1>3, <1>6, BallotTyped DEF Precommits, LocalActive
  <2>2. b = RecordVote(signed, p)
    BY <1>6 DEF Precommitted
  <2> HIDE DEF p
  <2>3. WellTyped(signed) /\ Changes(a, signed, {"prevoted", "precommitted", "ballots"})
    BY <1>3, <2>1, SignBallotTyped, SignBallotChanges
  <2> HIDE DEF signed
  <2>4. IsNode(signed)
    BY <2>3 DEF Changes
  <2>5. /\ WellTyped(b)
        /\ Changes(signed, b, {"evidence", "votes", "valid", "walValid", "locked", "walLocked"})
    BY <2>1, <2>2, <2>3, <2>4, RecordVoteTyped, RecordVoteChanges DEF Changes
  <2>6. Same(s, b)
    BY <1>4, <2>3, <2>5 DEF Changes, Fields, Same
  <2>7. AtTip(b)
    BY <2>6 DEF AtTip, Same
  <2>8. t = b \/ (v.hash # Nil /\ Grows(b, t))
    BY <1>2, <2>5, <2>7, FinalizeGrows
  <2> QED
    BY <2>6, <2>8, GrowsFrom DEF Grows, Same, t
<1> QED
  BY <1>2, <1>5, <1>6

LEMMA EmitPrevoteGrows ==
    ASSUME NEW n, NEW s, WellTyped(s), AtTip(s)
    PROVE  LET t == EmitPrevote(n, s)
           IN  Grows(s, t) /\ (s.proposal = {} => Same(s, t))
<1> DEFINE hash == PrevoteHash(s)
           v == Ballot(n, s, "prevote", hash)
           signed == SignBallot(s, v)
           t == HandleVoteActions(n, signed, v)
<1>1. \/ EmitPrevote(n, s) = s
      \/ n \in Validators /\ EmitPrevote(n, s) = t
  BY DEF EmitPrevote, LocalActive
<1>2. CASE EmitPrevote(n, s) = s
  BY <1>2 DEF Grows, Same
<1>3. CASE n \in Validators /\ EmitPrevote(n, s) = t
  <2>1. IsHash(hash) /\ (s.proposal = {} => hash = Nil)
    BY DEF PrevoteHash, WellTyped, HashAt, IsHash, Nil
  <2>2. v.hash = hash
    BY DEF Ballot
  <2> HIDE DEF hash
  <2>3. IsBallot(v)
    BY <1>3, <2>1, BallotTyped
  <2> HIDE DEF v
  <2>4. IsNode(s)
    BY DEF WellTyped, NodeType
  <2>5. WellTyped(signed) /\ Changes(s, signed, {"prevoted", "precommitted", "ballots"})
    BY <2>3, <2>4, SignBallotTyped, SignBallotChanges
  <2> HIDE DEF signed
  <2>6. Same(s, signed)
    BY <2>5 DEF Changes, Fields, Same
  <2>7. AtTip(signed)
    BY <2>6 DEF AtTip, Same
  <2>8. Grows(signed, t) /\ (v.hash = Nil => Same(signed, t))
    BY <2>3, <2>5, <2>7, HandleVoteActionsGrows
  <2> HIDE DEF t
  <2>9. Grows(s, t) /\ (s.proposal = {} => Same(s, t))
    BY <2>1, <2>2, <2>6, <2>8, GrowsFrom DEF Same
  <2> QED
    BY <1>3, <2>9
<1> QED
  BY <1>1, <1>2, <1>3

LEMMA MaybeProposeGrows ==
    ASSUME NEW n, NEW s, WellTyped(s), AtTip(s), NEW outcome \in Outcomes
    PROVE  Grows(s, MaybePropose(n, s, outcome))
<1> DEFINE t == MaybePropose(n, s, outcome)
<1>1. IsNode(s)
  BY DEF WellTyped, NodeType
<1>2. CASE t \in {s, Spent(s), Halted(s)}
  <2>1. t = s \/ Changes(s, t, {"protection", "up"})
    BY <1>1, <1>2, SpentChanges DEF Changes
  <2> HIDE DEF t
  <2>2. Same(s, t)
    BY <2>1 DEF Changes, Fields, Same
  <2> QED
    BY <2>2 DEF Grows, t
<1>3. CASE /\ MayPropose(n, s) /\ outcome \in Payloads
           /\ t = EmitPrevote(n, Offered(n, s, outcome))
  <2> DEFINE o == Offered(n, s, outcome)
  <2>1. WellTyped(o)
    BY <1>3, OfferedTyped DEF MayPropose, LocalActive
  <2>2. Changes(s, o, {"protection", "proposal", "proposals"})
    BY <1>1, OfferedChanges
  <2>3. t = EmitPrevote(n, o)
    BY <1>3
  <2> HIDE DEF o, t
  <2>4. Same(s, o)
    BY <2>2 DEF Changes, Fields, Same
  <2>5. AtTip(o)
    BY <2>4 DEF AtTip, Same
  <2> QED
    BY <2>1, <2>3, <2>4, <2>5, EmitPrevoteGrows, GrowsFrom DEF t
<1> QED
  BY <1>2, <1>3, MaybeProposeSteps

LEMMA ReceiveProposalGrows ==
    ASSUME NEW n, NEW s, WellTyped(s), AtTip(s), NEW b, IsBlock(b), Current(s, b)
    PROVE  Grows(s, ReceiveProposal(n, s, b))
<1> DEFINE t == ReceiveProposal(n, s, b)
           held == Held(s, b)
           accused == Accused(s, b)
<1>1. IsNode(s)
  BY DEF WellTyped, NodeType
<1>2. t = EmitPrevote(n, held) \/ t = s \/ t = accused
  BY ReceiveProposalSteps
<1>3. /\ WellTyped(held) /\ Changes(s, held, {"proposal"})
      /\ Changes(s, accused, {"evidence"})
  BY <1>1, HeldTyped, HeldChanges
<1> HIDE DEF t, held, accused
<1>4. Same(s, held) /\ Same(s, accused)
  BY <1>3 DEF Changes, Fields, Same
<1>5. AtTip(held)
  BY <1>4 DEF AtTip, Same
<1>6. Grows(s, EmitPrevote(n, held))
  BY <1>3, <1>4, <1>5, EmitPrevoteGrows, GrowsFrom
<1> QED
  BY <1>2, <1>4, <1>6 DEF Grows, Same, t

LEMMA ImportFinalizedBlockGrows ==
    ASSUME NEW s, WellTyped(s), AtTip(s), NEW f, IsBlock(f.block), Linked(f.block)
    PROVE  Grows(s, ImportFinalizedBlock(s, f))
<1> DEFINE t == ImportFinalizedBlock(s, f)
<1>1. IsNode(s) /\ s.height \in Nat /\ f.block.height \in Nat
  BY DEF WellTyped, NodeType, IsBlock
<1>2. Changes(s, t, {"walCommit"}) \/ ImportedTo(s, t, f)
  BY <1>1, ImportFinalizedBlockSteps
<1> HIDE DEF t
<1>3. CASE Changes(s, t, {"walCommit"})
  <2>1. Same(s, t)
    BY <1>3 DEF Changes, Fields, Same
  <2> QED
    BY <2>1 DEF Grows, t
<1>4. CASE ImportedTo(s, t, f)
  <2>1. f.block.height = s.height
    BY <1>1, <1>4, NextOnly DEF ImportedTo
  <2>2. Grown(s, t, f)
    BY <1>1, <1>4, <2>1, NothingReplaced DEF Grown, ImportedTo
  <2> QED
    BY <2>2 DEF Grows, t
<1> QED
  BY <1>2, <1>3, <1>4

\* The round deadline: the prevote, if there is one, is for NIL.
LEMMA TimeoutGrows ==
    ASSUME VoteInv, Honest, NEW n \in Nodes, NEW outcome \in Outcomes,
           node[n].round < MaxRound
    PROVE  Grows(node[n], MaybePropose(n, AdvanceRound(EmitPrevote(n, node[n])), outcome))
<1> DEFINE s == node[n]
           e == EmitPrevote(n, s)
           a == AdvanceRound(e)
<1>1. /\ WellTyped(s) /\ PrevotedAtOnce(n, s) /\ AtTip(s)
      /\ s.round \in Nat /\ s.round < MaxRound
  BY NodesGood DEF Honest, Chained, WellTyped, NodeType
<1> HIDE DEF s
<1>2. Same(s, e)
  <2>1. CASE s.proposal = {}
    BY <1>1, <2>1, EmitPrevoteGrows
  <2>2. CASE s.proposal # {}
    <3>1. e = s
      BY <1>1, <2>2 DEF PrevotedAtOnce, EmitPrevote, LocalActive
    <3> HIDE DEF e
    <3> QED
      BY <3>1 DEF Same
  <2> QED
    BY <2>1, <2>2
<1>3. WellTyped(e) /\ e.round < MaxRound
  <2>1. WellTyped(e) /\ e.round \in {s.round, 0}
    BY <1>1, EmitPrevoteTyped
  <2> QED
    BY <1>1, <2>1, BoundsAssumption
<1> HIDE DEF e
<1>4. WellTyped(a)
  BY <1>3, AdvanceRoundTyped
<1>5. Changes(e, a, {"proposal", "votes", "prevoted", "precommitted", "round", "snap"})
  BY <1>3, AdvanceRoundChanges DEF WellTyped, NodeType
<1> HIDE DEF a
<1>6. Same(s, a)
  BY <1>2, <1>5 DEF Changes, Fields, Same
<1>7. AtTip(a)
  BY <1>1, <1>6 DEF AtTip, Same
<1>8. Grows(a, MaybePropose(n, a, outcome))
  BY <1>4, <1>7, MaybeProposeGrows
<1>9. Grows(s, MaybePropose(n, a, outcome))
  BY <1>6, <1>8, GrowsFrom
<1> QED
  BY <1>9 DEF a, e, s

LEMMA StartGrows ==
    ASSUME VoteInv, Honest, NEW n \in Nodes, node[n] = BlankNode, NEW outcome \in Outcomes
    PROVE  Grows(node[n], MaybePropose(n, PersistSnapshot(Recovered(node[n])), outcome))
<1> DEFINE z == node[n]
           r == PersistSnapshot(Recovered(z))
           rec == RecoverSnapshot(z)
<1>1. WellTyped(z) /\ IsNode(z) /\ AtTip(z)
  BY NodesHave DEF Honest, Chained, WellTyped, NodeType
<1>2. z.walCommit = 0 /\ z.snap.height = 1 /\ z.height = 1
  BY DEF BlankNode
<1>3. /\ Changes(z, r, {"proposal", "votes", "prevoted", "precommitted", "up",
                        "evidence", "height", "round", "locked", "valid", "snap"})
      /\ r.height = rec.height
  BY <1>1, RecoveredChanges
<1>4. rec.height = 1
  BY <1>2 DEF RecoverSnapshot
<1>5. WellTyped(r)
  BY <1>1, RecoveredTyped
<1> HIDE DEF z, r, rec
<1>6. Same(z, r)
  BY <1>2, <1>3, <1>4 DEF Changes, Fields, Same
<1>7. AtTip(r)
  BY <1>1, <1>6 DEF AtTip, Same
<1>8. Grows(z, MaybePropose(n, r, outcome))
  BY <1>5, <1>6, <1>7, MaybeProposeGrows, GrowsFrom
<1> QED
  BY <1>8 DEF r, z

LEMMA NextGrows ==
    ASSUME VoteInv, Honest, Next, restarts = 0, restarts' = 0
    PROVE  \E n \in Nodes : \E s : node' = [node EXCEPT ![n] = s] /\ Grows(node[n], s)
<1>1. ASSUME NEW n \in Nodes, Start(n)
      PROVE  \E s : node' = [node EXCEPT ![n] = s] /\ Grows(node[n], s)
  BY <1>1, StartGrows DEF Start, Boot
<1>2. ASSUME NEW n \in Nodes, Restart(n)
      PROVE  FALSE
  BY <1>2 DEF Restart
<1>3. \A n \in Nodes : WellTyped(node[n]) /\ AtTip(node[n])
  BY NodesHave DEF Honest, Chained
<1>4. ASSUME NEW n \in Nodes, OnProposal(n)
      PROVE  \E s : node' = [node EXCEPT ![n] = s] /\ Grows(node[n], s)
  <2>1. PICK m \in Nodes : \E b \in node[m].proposals :
           /\ Current(node[n], b)
           /\ node' = [node EXCEPT ![n] = ReceiveProposal(n, node[n], b)]
    BY <1>4 DEF OnProposal, Peers
  <2>2. PICK b \in node[m].proposals :
           /\ Current(node[n], b)
           /\ node' = [node EXCEPT ![n] = ReceiveProposal(n, node[n], b)]
    BY <2>1
  <2>3. IsBlock(b)
    BY <1>3 DEF WellTyped, AreBlocks
  <2> QED
    BY <1>3, <2>2, <2>3, ReceiveProposalGrows
<1>5. ASSUME NEW n \in Nodes, OnVote(n)
      PROVE  \E s : node' = [node EXCEPT ![n] = s] /\ Grows(node[n], s)
  <2>1. PICK m \in Nodes : \E v \in node[m].ballots :
           node' = [node EXCEPT ![n] = HandleVoteActions(n, node[n], v)]
    BY <1>5 DEF OnVote, Peers
  <2>2. PICK v \in node[m].ballots :
           node' = [node EXCEPT ![n] = HandleVoteActions(n, node[n], v)]
    BY <2>1
  <2>3. IsBallot(v)
    BY <1>3 DEF WellTyped, AreBallots
  <2> QED
    BY <1>3, <2>2, <2>3, HandleVoteActionsGrows
<1>6. ASSUME NEW n \in Nodes, OnCommit(n)
      PROVE  \E s : node' = [node EXCEPT ![n] = s] /\ Grows(node[n], s)
  <2>1. PICK m \in Nodes : \E f \in node[m].commits :
           node' = [node EXCEPT ![n] = ImportFinalizedBlock(node[n], f)]
    BY <1>6 DEF OnCommit, Peers
  <2>2. PICK f \in node[m].commits :
           node' = [node EXCEPT ![n] = ImportFinalizedBlock(node[n], f)]
    BY <2>1
  <2>3. IsBlock(f.block) /\ Linked(f.block)
    BY CommitsTravel
  <2> QED
    BY <1>3, <2>2, <2>3, ImportFinalizedBlockGrows
<1>7. ASSUME NEW n \in Nodes, Timeout(n)
      PROVE  \E s : node' = [node EXCEPT ![n] = s] /\ Grows(node[n], s)
  BY <1>7, TimeoutGrows DEF Timeout
<1> QED
  BY <1>1, <1>2, <1>4, <1>5, <1>6, <1>7 DEF Next

-----------------------------------------------------------------------------
(* Stored blocks as a sequence.                                            *)

LEMMA LedgerIs ==
    ASSUME NEW s, s.height \in Nat \ {0}, Numbered(s),
           NEW S, \A f \in s.blocks : f.block \in S
    PROVE  /\ Ledger(s.blocks) \in Seq(S) /\ Len(Ledger(s.blocks)) = s.height - 1
           /\ \A f \in s.blocks : f.block.height \in 1..(s.height - 1) =>
                 Ledger(s.blocks)[f.block.height] = f.block
<1> DEFINE B == s.blocks
           k == s.height - 1
           L == Ledger(B)
           at(h) == CHOOSE f \in B : f.block.height = h
<1>1. L = [h \in 1..k |-> IF \E f \in B : f.block.height = h THEN at(h).block ELSE Nil]
  BY DEF Ledger, Numbered
<1>2. ASSUME NEW h \in 1..k PROVE at(h) \in B /\ at(h).block.height = h
  BY DEF Numbered
<1>3. \A h \in 1..k : L[h] = at(h).block /\ L[h] \in S
  BY <1>1, <1>2
<1>4. k \in Nat /\ DOMAIN L = 1..k
  BY <1>1
<1> HIDE DEF L, k
<1>5. L \in [1..k -> S]
  BY <1>1, <1>3, <1>4
<1>6. L \in Seq(S) /\ Len(L) = k
  BY <1>4, <1>5, SeqDef
<1>7. ASSUME NEW f \in B, f.block.height \in 1..k PROVE L[f.block.height] = f.block
  BY <1>2, <1>3, <1>7 DEF Numbered
<1> QED
  BY <1>6, <1>7 DEF L, k

\* Storing the next block appends it.
LEMMA LedgerAppends ==
    ASSUME NEW s, NEW t, s.height \in Nat \ {0}, Numbered(s), Numbered(t), AtTip(s),
           NEW f, Grown(s, t, f), NEW S, \A g \in t.blocks : g.block \in S
    PROVE  Ledger(t.blocks) = Append(Ledger(s.blocks), f.block)
<1> DEFINE L == Ledger(s.blocks)
           M == Ledger(t.blocks)
           k == s.height - 1
<1>1. f \in t.blocks /\ s.blocks \subseteq t.blocks /\ t.height = s.height + 1
  BY DEF Grown
<1>2. /\ L \in Seq(S) /\ Len(L) = k
      /\ \A g \in s.blocks : g.block.height \in 1..k => L[g.block.height] = g.block
  BY <1>1, LedgerIs
<1>3. /\ M \in Seq(S) /\ Len(M) = k + 1
      /\ \A g \in t.blocks : g.block.height \in 1..(k + 1) => M[g.block.height] = g.block
  <2>1. t.height \in Nat \ {0} /\ t.height - 1 = k + 1
    BY <1>1
  <2> HIDE DEF k
  <2> QED
    BY <2>1, LedgerIs
<1>4. k \in Nat /\ f.block.height = k + 1 /\ f.block \in S
  BY <1>1 DEF Grown
<1>5. \A h \in 1..k : \E g \in s.blocks : g.block.height = h
  BY DEF Numbered
<1> HIDE DEF L, M, k
<1>6. /\ Append(L, f.block) \in Seq(S) /\ Len(Append(L, f.block)) = k + 1
      /\ \A i \in 1..k : Append(L, f.block)[i] = L[i]
      /\ Append(L, f.block)[k + 1] = f.block
  BY <1>2, <1>4
<1>7. ASSUME NEW i \in 1..(k + 1) PROVE M[i] = Append(L, f.block)[i]
  <2>1. CASE i = k + 1
    BY <1>1, <1>3, <1>4, <1>6, <2>1
  <2>2. CASE i \in 1..k
    <3>1. PICK g \in s.blocks : g.block.height = i
      BY <1>5, <2>2
    <3> QED
      BY <1>1, <1>2, <1>3, <1>6, <2>2, <3>1
  <2>3. i = k + 1 \/ i \in 1..k
    BY <1>4
  <2> QED
    BY <2>1, <2>2, <2>3, Zenon
<1>8. M = Append(L, f.block)
  BY <1>3, <1>6, <1>7, SeqEqual
<1> QED
  BY <1>8 DEF L, M

\* One step of the engine is one step of Finality, or none.
LEMMA LedgerStep ==
    ASSUME VoteInv, Honest, VoteInv', Honest', Agreement',
           NEW n \in Nodes, NEW s, node' = [node EXCEPT ![n] = s], Grows(node[n], s),
           NEW S, \A m \in Nodes : \A f \in node'[m].blocks : f.block \in S
    PROVE  LET L == [m \in Nodes |-> Ledger(node[m].blocks)]
               M == [m \in Nodes |-> Ledger(node'[m].blocks)]
           IN  \/ M = L
               \/ /\ \A m \in Nodes : Len(L[m]) <= Len(L[n])
                  /\ \E b \in S : M = [L EXCEPT ![n] = Append(L[n], b)]
               \/ \E m \in Nodes :
                     /\ Len(L[m]) > Len(L[n])
                     /\ M = [L EXCEPT ![n] = Append(L[n], L[m][Len(L[n]) + 1])]
<1> DEFINE L == [m \in Nodes |-> Ledger(node[m].blocks)]
           M == [m \in Nodes |-> Ledger(node'[m].blocks)]
<1>1. /\ node'[n] = s
      /\ \A m \in Nodes \ {n} : node'[m] = node[m]
  BY DEF VoteInv, TypeInv
<1>2. CASE Same(node[n], s)
  <2>1. \A m \in Nodes : node'[m].blocks = node[m].blocks
    BY <1>1, <1>2 DEF Same
  <2> QED
    BY <2>1
<1>3. ASSUME NEW f, Grown(node[n], s, f)
      PROVE  \/ /\ \A m \in Nodes : Len(L[m]) <= Len(L[n])
                /\ \E b \in S : M = [L EXCEPT ![n] = Append(L[n], b)]
             \/ \E m \in Nodes :
                   /\ Len(L[m]) > Len(L[n])
                   /\ M = [L EXCEPT ![n] = Append(L[n], L[m][Len(L[n]) + 1])]
  <2>1. \A m \in Nodes : /\ node[m].height \in Nat \ {0}
                         /\ Numbered(node[m]) /\ Numbered(node'[m]) /\ AtTip(node[m])
    BY NodesHave DEF Honest, Chained, WellTyped, NodeType
  <2>2. \A m \in Nodes : \A g \in node[m].blocks : g.block \in S
    BY <1>1, <1>3 DEF Grown
  <2>3. \A m \in Nodes :
           /\ Len(L[m]) = node[m].height - 1
           /\ \A g \in node[m].blocks : g.block.height \in 1..(node[m].height - 1) =>
                 L[m][g.block.height] = g.block
    BY <2>1, <2>2, LedgerIs
  <2>4. f \in node'[n].blocks /\ f.block.height = node[n].height /\ f.block \in S
    BY <1>1, <1>3 DEF Grown
  <2>5. Ledger(s.blocks) = Append(Ledger(node[n].blocks), f.block)
    <3>1. \A g \in s.blocks : g.block \in S
      BY <1>1
    <3>2. Numbered(s)
      BY <1>1, <2>1
    <3> QED
      BY <1>3, <2>1, <3>1, <3>2, LedgerAppends
  <2>6. M = [L EXCEPT ![n] = Append(L[n], f.block)]
    <3>1. /\ M[n] = Append(L[n], f.block)
          /\ \A m \in Nodes \ {n} : M[m] = L[m]
      BY <1>1, <2>5
    <3>2. M = [m \in Nodes |-> M[m]] /\ DOMAIN L = Nodes
      OBVIOUS
    <3> DEFINE a == Append(L[n], f.block)
    <3>3. M[n] = a
      BY <3>1
    <3> HIDE DEF L, M, a
    <3>4. M = [L EXCEPT ![n] = a]
      BY <3>1, <3>2, <3>3
    <3> QED
      BY <3>4 DEF a
  <2>7. CASE \A m \in Nodes : node[m].height <= node[n].height
    <3>1. \A m \in Nodes : Len(L[m]) <= Len(L[n])
      BY <2>1, <2>3, <2>7
    <3> HIDE DEF L, M
    <3> QED
      BY <2>4, <2>6, <3>1
  <2>8. ASSUME NEW m \in Nodes, node[m].height > node[n].height
        PROVE  /\ Len(L[m]) > Len(L[n])
               /\ f.block = L[m][Len(L[n]) + 1]
    <3>1. Len(L[m]) > Len(L[n]) /\ Len(L[n]) + 1 = node[n].height
      BY <2>1, <2>3, <2>8
    <3>2. node[n].height \in 1..(node[m].height - 1)
      BY <2>1, <2>8
    <3>3. PICK g \in node[m].blocks : g.block.height = node[n].height
      BY <2>1, <3>2 DEF Numbered
    <3>4. m # n
      BY <2>1, <2>8
    <3>5. g \in node'[m].blocks
      BY <1>1, <3>4
    <3>6. g.block = f.block
      BY <2>4, <3>3, <3>5 DEF Agreement
    <3>7. L[m][node[n].height] = g.block
      BY <2>3, <3>2, <3>3
    <3> QED
      BY <3>1, <3>6, <3>7
  <2>9. CASE \E m \in Nodes : node[m].height > node[n].height
    <3>1. PICK m \in Nodes : /\ Len(L[m]) > Len(L[n])
                             /\ f.block = L[m][Len(L[n]) + 1]
      BY <2>8, <2>9
    <3> HIDE DEF L, M
    <3> QED
      BY <2>6, <3>1
  <2>10. \/ \A m \in Nodes : node[m].height <= node[n].height
         \/ \E m \in Nodes : node[m].height > node[n].height
    BY <2>1
  <2> HIDE DEF L, M
  <2> QED
    BY <2>7, <2>9, <2>10, Zenon
<1> QED
  BY <1>2, <1>3 DEF Grows

-----------------------------------------------------------------------------
\* Before anything is finalized the ledgers are empty.
LEMMA LedgerEmpty ==
    ASSUME Init
    PROVE  [n \in Nodes |-> Ledger(node[n].blocks)] = [n \in Nodes |-> <<>>]
<1>1. \A n \in Nodes : node[n].blocks = {}
  BY DEF Init, BlankNode
<1>2. Ledger({}) = <<>>
  <2>1. 1..Cardinality({}) = {}
    BY FS_EmptySet
  <2> QED
    BY <2>1 DEF Ledger
<1> QED
  BY <1>1, <1>2

BlocksIn(S) == \A n \in Nodes : \A f \in node[n].blocks : f.block \in S

LEMMA NextRefines ==
    ASSUME HonestInv, HonestInv', restarts = 0, restarts' = 0, Agreement', Next,
           NEW S, \A m \in Nodes : \A f \in node'[m].blocks : f.block \in S
    PROVE  LET L == [m \in Nodes |-> Ledger(node[m].blocks)]
               M == [m \in Nodes |-> Ledger(node'[m].blocks)]
           IN  \/ M = L
               \/ \E n \in Nodes :
                     \/ /\ \A m \in Nodes : Len(L[m]) <= Len(L[n])
                        /\ \E b \in S : M = [L EXCEPT ![n] = Append(L[n], b)]
                     \/ \E m \in Nodes :
                           /\ Len(L[m]) > Len(L[n])
                           /\ M = [L EXCEPT ![n] = Append(L[n], L[m][Len(L[n]) + 1])]
<1>1. VoteInv /\ Honest /\ VoteInv' /\ Honest'
  BY DEF HonestInv
<1>2. PICK n \in Nodes : \E s : node' = [node EXCEPT ![n] = s] /\ Grows(node[n], s)
  BY <1>1, NextGrows
<1>3. PICK s : node' = [node EXCEPT ![n] = s] /\ Grows(node[n], s)
  BY <1>2
<1> DEFINE L == [m \in Nodes |-> Ledger(node[m].blocks)]
           M == [m \in Nodes |-> Ledger(node'[m].blocks)]
<1>4. \/ M = L
      \/ /\ \A m \in Nodes : Len(L[m]) <= Len(L[n])
         /\ \E b \in S : M = [L EXCEPT ![n] = Append(L[n], b)]
      \/ \E m \in Nodes :
            /\ Len(L[m]) > Len(L[n])
            /\ M = [L EXCEPT ![n] = Append(L[n], L[m][Len(L[n]) + 1])]
  BY <1>1, <1>3, LedgerStep
<1> HIDE DEF L, M
<1>5. \/ M = L
      \/ \E k \in Nodes :
            \/ /\ \A m \in Nodes : Len(L[m]) <= Len(L[k])
               /\ \E b \in S : M = [L EXCEPT ![k] = Append(L[k], b)]
            \/ \E m \in Nodes :
                  /\ Len(L[m]) > Len(L[k])
                  /\ M = [L EXCEPT ![k] = Append(L[k], L[m][Len(L[k]) + 1])]
  BY <1>4, Zenon
<1> QED
  BY <1>5 DEF L, M

(* The consensus engine implements one ledger.  In a behaviour without     *)
(* restarts every step is a step of Finality or leaves the ledgers alone:  *)
(* a node that finalizes or imports a block either decides the next one,   *)
(* and then nobody is ahead of it, or appends what the nodes ahead of it   *)
(* hold at that height; no handler finalizes two blocks.  Blocks is any    *)
(* set the finalized blocks belong to.                                     *)
THEOREM FinalityTheorem ==
    Spec /\ [](restarts = 0 /\ BlocksIn(Blocks)) => G!Spec
<1> DEFINE L == [n \in Nodes |-> Ledger(node[n].blocks)]
           Quiet == restarts = 0 /\ BlocksIn(Blocks)
<1>1. Init => G!Init
  BY LedgerEmpty DEF G!Init
<1>2. HonestInv /\ HonestInv' /\ Quiet /\ Quiet' /\ (restarts = 0 => Agreement)'
         /\ [Next]_vars => [G!Next]_L
  <2> SUFFICES ASSUME HonestInv, HonestInv', Quiet, Quiet', Agreement', Next, L' # L
               PROVE  G!Next
    <3>1. UNCHANGED vars => L' = L
      BY DEF vars
    <3> QED
      BY <3>1
  <2>1. \E n \in Nodes :
           \/ /\ \A m \in Nodes : Len(L[m]) <= Len(L[n])
              /\ \E b \in Blocks : L' = [L EXCEPT ![n] = Append(L[n], b)]
           \/ \E m \in Nodes :
                 /\ Len(L[m]) > Len(L[n])
                 /\ L' = [L EXCEPT ![n] = Append(L[n], L[m][Len(L[n]) + 1])]
    BY NextRefines DEF BlocksIn
  <2> QED
    BY <2>1 DEF G!Next, G!Decide, G!Learn, G!Longest
<1> QED
  BY <1>1, <1>2, HonestInvInit, HonestInvNext, AgreementTheorem, PTL DEF Spec, G!Spec

(* ImplementsFinality, the form of it that the catch-up run checks, with   *)
(* the blocks of the first two heights.                                    *)
THEOREM ImplementsFinalityTheorem ==
    Spec /\ [](restarts = 0 /\ BlocksIn(AllBlocks)) => ImplementsFinality
<1> DEFINE L == [n \in Nodes |-> Ledger(node[n].blocks)]
           Quiet == restarts = 0 /\ BlocksIn(AllBlocks)
<1>1. Init => F!Init
  BY LedgerEmpty DEF F!Init
<1>2. HonestInv /\ HonestInv' /\ Quiet /\ Quiet' /\ (restarts = 0 => Agreement)'
         /\ [Next]_vars => [F!Next]_L
  <2> SUFFICES ASSUME HonestInv, HonestInv', Quiet, Quiet', Agreement', Next, L' # L
               PROVE  F!Next
    <3>1. UNCHANGED vars => L' = L
      BY DEF vars
    <3> QED
      BY <3>1
  <2>1. \E n \in Nodes :
           \/ /\ \A m \in Nodes : Len(L[m]) <= Len(L[n])
              /\ \E b \in AllBlocks : L' = [L EXCEPT ![n] = Append(L[n], b)]
           \/ \E m \in Nodes :
                 /\ Len(L[m]) > Len(L[n])
                 /\ L' = [L EXCEPT ![n] = Append(L[n], L[m][Len(L[n]) + 1])]
    BY NextRefines DEF BlocksIn
  <2> QED
    BY <2>1 DEF F!Next, F!Decide, F!Learn, F!Longest
<1> QED
  BY <1>1, <1>2, HonestInvInit, HonestInvNext, AgreementTheorem, PTL
  DEF Spec, ImplementsFinality, F!Spec

=============================================================================
