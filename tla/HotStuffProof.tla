--------------------------- MODULE HotStuffProof ---------------------------
(***************************************************************************)
(* Theorems about HotStuff, for every number of validators and every       *)
(* bound: first what holds with restarts, losses and every interleaving    *)
(* (types, locks, proposals, certificates, commits), then what             *)
(* certificates mean in runs in which no process is restarted.             *)
(***************************************************************************)
EXTENDS HotStuff, Induction

\* While Run is inside leaderRound it leads a view of the model.
RoundOK == \A n \in Node : pc[n] \in {"collect", "observe"} => Round(n) \in Hash

TypeInv == TypeOK /\ RoundOK

LEMMA HashFacts ==
  /\ Genesis \notin Hash
  /\ \A h \in Hash : ViewOf(h) \in View /\ ViewOf(h) > 0
  /\ NoCert \notin Certificate
  /\ \A c \in CertOrNil : ViewOf(c.h) \in 0..MaxView /\ c.h \in Hash \cup {Genesis}
BY BoundsAssumption DEF Genesis, Hash, View, ViewOf, NoCert, Certificate, CertOrNil

LEMMA InitType == Init => TypeInv
BY BoundsAssumption, PayloadsAssumption
   DEF Init, TypeInv, TypeOK, RoundOK, Block, NoBlock, CertOrNil, PC, Hash, View

\* One step per action of Run, the two handlers and the restart.
LEMMA StartRoundType == ASSUME TypeInv, NEW n \in Node, StartRound(n) PROVE TypeInv'
<1>1. Round(n) \in Hash
  BY BoundsAssumption DEF StartRound, Round, Hash, View, TypeInv, TypeOK
<1>2. highCert[n].h \in Hash \cup {Genesis} /\ ViewOf(highCert[n].h) \in 0..MaxView
  BY HashFacts DEF TypeInv, TypeOK
<1>3. Height(n) + 1 \in Nat
  BY DEF Height, TypeInv, TypeOK
<1>4. PICK p \in BOOLEAN : block' = [block EXCEPT ![Round(n)] =
         [height |-> Height(n) + 1, parent |-> highCert[n].h,
          payload |-> p, high |-> ViewOf(highCert[n].h)]]
  BY PayloadsAssumption DEF StartRound
<1>5. block' \in [Hash -> Block]
  BY <1>1, <1>2, <1>3, <1>4 DEF Block, TypeInv, TypeOK
<1>6. stored' \in [Node -> SUBSET Hash] /\ pc' \in [Node -> PC]
  BY <1>1 DEF StartRound, TypeInv, TypeOK, PC
<1>7. TypeOK'
  <2>1. UNCHANGED <<votes, certs, seenPropose, seenPrepare, view, highCert, locked, certByView, committed,
                    books, preparing, committing, lockHalfSet, viewAdvanceCh, incarnation>>
    BY DEF StartRound, commit
  <2>2. QED
    BY <1>5, <1>6, <2>1 DEF TypeInv, TypeOK
<1>8. RoundOK'
  <2>1. /\ \A m \in Node : Round(m)' = Round(m)
        /\ \A m \in Node : m # n => pc'[m] = pc[m]
    BY DEF StartRound, TypeInv, TypeOK, Round
  <2>2. QED
    BY <1>1, <2>1 DEF TypeInv, RoundOK
<1>9. QED
  BY <1>7, <1>8 DEF TypeInv

LEMMA CollectQuorumType == ASSUME TypeInv, NEW n \in Node, CollectQuorum(n) PROVE TypeInv'
<1>1. Round(n) \in Hash
  BY DEF CollectQuorum, TypeInv, RoundOK
<1>2. PICK a \in votes[Round(n)] :
        LET cert == [h |-> Round(n), app |-> a.app] IN
          /\ certs' = certs \cup {cert}
          /\ certByView' = [certByView EXCEPT ![n][ViewOf(cert.h)] = cert]
  BY DEF CollectQuorum
<1>3. [h |-> Round(n), app |-> a.app] \in Certificate
  BY <1>1, <1>2 DEF TypeInv, TypeOK, Vote, Certificate
<1>4. certs' \subseteq Certificate /\ certByView' \in [Node -> [View -> CertOrNil]]
  BY <1>2, <1>3 DEF TypeInv, TypeOK, CertOrNil
<1>5. TypeOK'
  BY <1>4 DEF CollectQuorum, TypeInv, TypeOK, PC, commit
<1>6. RoundOK'
  BY <1>1 DEF CollectQuorum, TypeInv, TypeOK, RoundOK, Round
<1>7. QED
  BY <1>5, <1>6 DEF TypeInv

LEMMA FinishRoundType == ASSUME TypeInv, NEW n \in Node, FinishRound(n) PROVE TypeInv'
<1>1. Round(n) \in Hash
  BY DEF FinishRound, TypeInv, RoundOK
<1>2. view[n] + 1 \in 0..MaxView
  BY <1>1, BoundsAssumption DEF Round, Hash, View
<1>3. highCert' \in [Node -> CertOrNil]
  BY DEF FinishRound, TypeInv, TypeOK, Newer, CertOrNil
<1>4. TypeOK'
  BY <1>2, <1>3 DEF FinishRound, TypeInv, TypeOK, PC, network, commit
<1>5. RoundOK'
  BY DEF FinishRound, TypeInv, TypeOK, RoundOK, Round
<1>6. QED
  BY <1>4, <1>5 DEF TypeInv

LEMMA WaitType ==
  ASSUME TypeInv, NEW n \in Node, WaitTimeout(n) \/ ReceiveAdvance(n) PROVE TypeInv'
<1>1. CASE WaitTimeout(n)
  <2>1. view[n] + 1 \in 0..MaxView
    BY <1>1, BoundsAssumption DEF WaitTimeout, Waiting, TypeInv, TypeOK
  <2>2. TypeOK'
    BY <1>1, <2>1 DEF WaitTimeout, TypeInv, TypeOK, network, control
  <2>3. RoundOK'
    BY <1>1 DEF WaitTimeout, Waiting, TypeInv, TypeOK, RoundOK, Round, control
  <2>4. QED
    BY <2>2, <2>3 DEF TypeInv
<1>2. CASE ReceiveAdvance(n)
  <2>1. Head(viewAdvanceCh[n]) \in View /\ Tail(viewAdvanceCh[n]) \in Seq(View)
    BY <1>2 DEF ReceiveAdvance, TypeInv, TypeOK
  <2>2. Advance(view[n], Head(viewAdvanceCh[n])) \in 0..MaxView
    BY <2>1, BoundsAssumption DEF Advance, View, TypeInv, TypeOK
  <2>3. TypeOK'
    BY <1>2, <2>1, <2>2 DEF ReceiveAdvance, TypeInv, TypeOK, network, commit
  <2>4. RoundOK'
    BY <1>2 DEF ReceiveAdvance, Waiting, TypeInv, TypeOK, RoundOK, Round
  <2>5. QED
    BY <2>3, <2>4 DEF TypeInv
<1>3. QED
  BY <1>1, <1>2

LEMMA LeaderFailsType ==
  ASSUME TypeInv, NEW n \in Node, CollectMismatch(n) \/ CollectTimeout(n) PROVE TypeInv'
BY DEF CollectMismatch, CollectTimeout, TypeInv, TypeOK, RoundOK, Round, PC, network, state, commit

LEMMA ExecuteType == ASSUME TypeInv, NEW n \in Node, NEW h \in Hash PROVE Execute(n, h) \in Seq(Hash)
BY DEF Execute, TypeInv, TypeOK

LEMMA OnProposeType ==
  ASSUME TypeInv, NEW n \in Node, NEW h \in Hash, OnPropose(n, h) PROVE TypeInv'
<1> DEFINE x == [from |-> n, inc |-> incarnation[n], app |-> AppHash(n, h)]
<1>1. Execute(n, h) \in Seq(Hash)
  BY ExecuteType
<1>2. x \in Vote
  BY <1>1 DEF AppHash, Vote, TypeInv, TypeOK
<1>3. AddVote(votes[h], x) \in SUBSET Vote
  BY <1>2 DEF AddVote, TypeInv, TypeOK
<1>4. votes' = votes \/ votes' = [votes EXCEPT ![h] = AddVote(votes[h], x)]
  BY DEF OnPropose
<1>5. votes' \in [Hash -> SUBSET Vote]
  BY <1>3, <1>4 DEF TypeInv, TypeOK
<1>6. books' \in [Node -> Seq(Hash)]
  BY <1>1 DEF OnPropose, TypeInv, TypeOK
<1>7. /\ seenPropose' \in [Node -> SUBSET Hash] /\ stored' \in [Node -> SUBSET Hash]
      /\ UNCHANGED <<block, certs, seenPrepare, view, highCert, locked, certByView, committed, pc,
                     preparing, committing, lockHalfSet, viewAdvanceCh, incarnation>>
  BY DEF OnPropose, TypeInv, TypeOK, control
<1>8. TypeOK' /\ RoundOK'
  BY <1>5, <1>6, <1>7 DEF TypeInv, TypeOK, RoundOK, Round
<1>9. QED
  BY <1>8 DEF TypeInv

LEMMA OnPrepareType ==
  ASSUME TypeInv, NEW n \in Node, NEW c \in certs, OnPrepare(n, c) PROVE TypeInv'
<1>1. c \in Certificate /\ ViewOf(c.h) \in View
  BY HashFacts DEF TypeInv, TypeOK, Certificate
<1>2. Signal(viewAdvanceCh[n], ViewOf(c.h)) \in Seq(View)
  BY <1>1 DEF Signal, TypeInv, TypeOK
<1>3. Newer(c, highCert[n]) \in CertOrNil
  BY <1>1 DEF Newer, CertOrNil, TypeInv, TypeOK
<1>4. TypeOK'
  BY <1>1, <1>2, <1>3 DEF OnPrepare, TypeInv, TypeOK, CertOrNil, commit
<1>5. RoundOK'
  BY DEF OnPrepare, TypeInv, TypeOK, RoundOK, Round
<1>6. QED
  BY <1>4, <1>5 DEF TypeInv

LEMMA PrevCertType ==
  ASSUME TypeInv, NEW n \in Node, NEW c \in CertOrNil PROVE PrevCert(n, c) \in CertOrNil
<1>1. ViewOf(c.h) \in 0..MaxView
  BY HashFacts
<1>2. CASE ViewOf(c.h) > 1
  <2>1. ViewOf(c.h) - 1 \in View
    BY <1>1, <1>2, BoundsAssumption DEF View
  <2>2. QED
    BY <2>1 DEF PrevCert, CertOrNil, TypeInv, TypeOK
<1>3. CASE ~(ViewOf(c.h) > 1)
  BY <1>3 DEF PrevCert, CertOrNil
<1>4. QED
  BY <1>2, <1>3

LEMMA TryCommitType == ASSUME TypeInv, NEW n \in Node, TryCommit(n) PROVE TypeInv'
<1>1. CASE SkipCommit(n)
  BY <1>1 DEF SkipCommit, TypeInv, TypeOK, RoundOK, Round, CertOrNil, network, state, commit
<1>2. CASE UpdateHighCert(n)
  <2>1. PrevCert(n, preparing[n]) \in CertOrNil
    BY PrevCertType DEF TypeInv, TypeOK
  <2>2. QED
    BY <1>2, <2>1 DEF UpdateHighCert, TypeInv, TypeOK, RoundOK, Round, network
<1>3. CASE UpdateLocked(n)
  BY <1>3 DEF UpdateLocked, TypeInv, TypeOK, RoundOK, Round, network
<1>4. CASE Commit(n)
  <2>1. committing[n].h \in Hash
    BY <1>4 DEF Commit, TypeInv, TypeOK, CertOrNil, Certificate
  <2>2. Append(committed[n], committing[n].h) \in Seq(Hash)
    BY <2>1 DEF TypeInv, TypeOK
  <2>3. TypeOK'
    BY <1>4, <2>2 DEF Commit, TypeInv, TypeOK, CertOrNil, network
  <2>4. RoundOK'
    BY <1>4 DEF Commit, TypeInv, TypeOK, RoundOK, Round
  <2>5. QED
    BY <2>3, <2>4 DEF TypeInv
<1>5. QED
  BY <1>1, <1>2, <1>3, <1>4 DEF TryCommit

LEMMA RestartType == ASSUME TypeInv, NEW n \in Node, Restart(n) PROVE TypeInv'
<1>1. incarnation[n] + 1 \in 0..MaxRestarts
  BY BoundsAssumption DEF Restart, TypeInv, TypeOK
<1>2. 0 \in 0..MaxView /\ NoCert \in CertOrNil /\ [v \in View |-> NoCert] \in [View -> CertOrNil]
  BY BoundsAssumption DEF CertOrNil
<1>3. TypeOK'
  BY <1>1, <1>2 DEF Restart, TypeInv, TypeOK, PC
<1>4. RoundOK'
  BY DEF Restart, TypeInv, TypeOK, RoundOK, Round
<1>5. QED
  BY <1>3, <1>4 DEF TypeInv

LEMMA StutterType == ASSUME TypeInv, UNCHANGED vars PROVE TypeInv'
BY DEF TypeInv, TypeOK, RoundOK, Round, vars

LEMMA NextType == TypeInv /\ [Next]_vars => TypeInv'
<1>1. ASSUME TypeInv, NEW n \in Node, Run(n) PROVE TypeInv'
  BY <1>1, StartRoundType, CollectQuorumType, LeaderFailsType, FinishRoundType, WaitType DEF Run
<1>2. ASSUME TypeInv, NEW n \in Node, HandlePropose(n) \/ HandlePrepare(n) PROVE TypeInv'
  BY <1>2, OnProposeType, OnPrepareType, TryCommitType DEF HandlePropose, HandlePrepare
<1>3. QED
  BY <1>1, <1>2, RestartType, StutterType DEF Next

LEMMA TypeInvariant == Spec => []TypeInv
BY InitType, NextType, PTL DEF Spec

\* Every variable of every validator keeps its type, whatever is lost, delayed
\* or restarted; in particular no round leaves the views of the model.
THEOREM TypeCorrect == Spec => []TypeOK
BY TypeInvariant, PTL DEF TypeInv

-----------------------------------------------------------------------------
(***************************************************************************)
(* The lock                                                                *)
(***************************************************************************)

LEMMA NewerView ==
  ASSUME NEW c \in CertOrNil, NEW d \in CertOrNil PROVE ViewOf(Newer(c, d).h) >= ViewOf(d.h)
<1>1. ViewOf(c.h) \in 0..MaxView /\ ViewOf(d.h) \in 0..MaxView
  BY HashFacts
<1>2. QED
  BY <1>1, BoundsAssumption DEF Newer

\* How far a validator is in UpdateLock, and what that says of HighCert and
\* Locked: together with the two handlers' turns this is inductive.
LockOK(n) ==
  /\ committing[n] # NoCert => preparing[n] # NoCert
  /\ lockHalfSet[n] => committing[n] # NoCert /\ highCert[n] = committing[n]
  /\ ~lockHalfSet[n] => ViewOf(highCert[n].h) >= ViewOf(locked[n].h)
  /\ committing[n] # NoCert /\ ~lockHalfSet[n] => locked[n] = committing[n]
  /\ committing[n] = NoCert =>
       locked[n].h = (IF committed[n] = <<>> THEN Genesis ELSE committed[n][Height(n)])

LockInv == \A n \in Node : LockOK(n)

LEMMA InitLock == Init => LockInv
BY BoundsAssumption DEF Init, LockInv, LockOK, NoCert, ViewOf, Genesis

\* A certificate later than HighCert replaces it outside UpdateLock.
LEMMA NewerLock ==
  ASSUME TypeInv, NEW n \in Node, NEW c \in CertOrNil, LockOK(n), ~lockHalfSet[n],
         highCert'[n] = Newer(c, highCert[n]), preparing[n] = NoCert \/ preparing'[n] = preparing[n],
         UNCHANGED <<locked[n], committed[n], committing[n], lockHalfSet[n]>>
  PROVE  LockOK(n)'
<1>1. highCert[n] \in CertOrNil /\ locked[n] \in CertOrNil /\ highCert'[n] \in CertOrNil
  BY DEF TypeInv, TypeOK, Newer
<1>2. /\ ViewOf(highCert[n].h) \in Nat /\ ViewOf(locked[n].h) \in Nat
      /\ ViewOf(highCert'[n].h) \in Nat
  BY <1>1, HashFacts, BoundsAssumption
<1>3. ViewOf(highCert'[n].h) >= ViewOf(highCert[n].h)
  BY <1>1, NewerView
<1>4. ViewOf(highCert[n].h) >= ViewOf(locked[n].h)
  BY DEF LockOK
<1>5. ViewOf(highCert'[n].h) >= ViewOf(locked[n].h)
  BY <1>2, <1>3, <1>4
<1>6. QED
  BY <1>5 DEF LockOK, Height, ViewOf

LEMMA AppendedLast ==
  \A s \in Seq(Hash), h \in Hash : Append(s, h) # <<>> /\ Append(s, h)[Len(Append(s, h))] = h
OBVIOUS

LEMMA TryCommitLock == ASSUME TypeInv, NEW n \in Node, LockOK(n), TryCommit(n) PROVE LockOK(n)'
<1> USE DEF TypeInv, TypeOK
<1>1. CASE SkipCommit(n)
  BY <1>1 DEF SkipCommit, LockOK, Height, ViewOf, state, commit
<1>2. CASE UpdateHighCert(n)
  BY <1>2 DEF UpdateHighCert, CommitReady, LockOK
<1>3. CASE UpdateLocked(n)
  <2>1. /\ locked'[n] = committing[n] /\ ~lockHalfSet'[n] /\ lockHalfSet[n]
        /\ UNCHANGED <<highCert, committed, committing, preparing>>
    BY <1>3 DEF UpdateLocked
  <2>2. ViewOf(highCert'[n].h) = ViewOf(locked'[n].h) /\ ViewOf(highCert'[n].h) \in Nat
    BY <2>1, HashFacts, BoundsAssumption DEF LockOK
  <2>3. QED
    BY <2>1, <2>2 DEF LockOK, ViewOf
<1>4. CASE Commit(n)
  <2>1. /\ committing[n] # NoCert /\ ~lockHalfSet[n] /\ committing'[n] = NoCert
        /\ committed'[n] = Append(committed[n], committing[n].h)
        /\ UNCHANGED <<highCert, locked, lockHalfSet>>
    BY <1>4 DEF Commit
  <2>2. committing[n].h \in Hash /\ committed[n] \in Seq(Hash)
    BY <2>1 DEF CertOrNil, Certificate
  <2>3. committed'[n] # <<>> /\ committed'[n][Len(committed'[n])] = committing[n].h
    BY <2>1, <2>2, AppendedLast
  <2>4. locked'[n].h = committed'[n][Len(committed'[n])]
    BY <2>1, <2>3 DEF LockOK
  <2>5. ~lockHalfSet'[n] /\ ViewOf(highCert'[n].h) >= ViewOf(locked'[n].h)
    BY <2>1 DEF LockOK, ViewOf
  <2>6. QED
    BY <2>1, <2>3, <2>4, <2>5 DEF LockOK, Height, ViewOf
<1>5. QED
  BY <1>1, <1>2, <1>3, <1>4 DEF TryCommit

LEMMA NextLock == TypeInv /\ LockInv /\ [Next]_vars => LockInv'
<1> SUFFICES ASSUME TypeInv, LockInv, [Next]_vars, NEW m \in Node PROVE LockOK(m)'
  BY DEF LockInv
<1> USE DEF TypeInv, TypeOK
<1>1. LockOK(m)
  BY DEF LockInv
<1>2. ASSUME UNCHANGED <<highCert[m], locked[m], committed[m], committing[m], lockHalfSet[m], preparing[m]>>
      PROVE  LockOK(m)'
  BY <1>1, <1>2 DEF LockOK, Height, ViewOf
<1>3. ASSUME NEW n \in Node, StartRound(n) \/ CollectQuorum(n) \/ CollectMismatch(n) \/ CollectTimeout(n)
                               \/ WaitTimeout(n) \/ ReceiveAdvance(n) \/ HandlePropose(n)
      PROVE  LockOK(m)'
  <2>1. UNCHANGED <<highCert, locked, committed, committing, lockHalfSet, preparing>>
    BY <1>3 DEF StartRound, CollectQuorum, CollectMismatch, CollectTimeout, WaitTimeout, ReceiveAdvance,
       HandlePropose, OnPropose, state, control, commit
  <2>2. QED
    BY <1>2, <2>1
<1>4. ASSUME NEW n \in Node, FinishRound(n) PROVE LockOK(m)'
  <2>1. PICK c \in certs : highCert' = [highCert EXCEPT ![n] = Newer(c, @)]
    BY <1>4 DEF FinishRound
  <2>2. UNCHANGED <<locked, committed, committing, lockHalfSet, preparing>> /\ ~lockHalfSet[n]
    BY <1>4 DEF FinishRound, commit
  <2>3. c \in CertOrNil
    BY DEF CertOrNil
  <2>4. CASE m = n
    BY <1>1, <2>1, <2>2, <2>3, <2>4, NewerLock
  <2>5. CASE m # n
    BY <1>2, <2>1, <2>2, <2>5
  <2>6. QED
    BY <2>4, <2>5
<1>5. ASSUME NEW n \in Node, NEW c \in certs, OnPrepare(n, c) PROVE LockOK(m)'
  <2>1. /\ highCert' = [highCert EXCEPT ![n] = Newer(c, @)] /\ preparing[n] = NoCert
        /\ preparing' = [preparing EXCEPT ![n] = c]
        /\ UNCHANGED <<locked, committed, committing, lockHalfSet>>
    BY <1>5 DEF OnPrepare, commit
  <2>2. c \in CertOrNil
    BY DEF CertOrNil
  <2>3. CASE m = n
    <3>1. ~lockHalfSet[n]
      BY <1>1, <2>1, <2>3 DEF LockOK
    <3>2. QED
      BY <1>1, <2>1, <2>2, <2>3, <3>1, NewerLock
  <2>4. CASE m # n
    BY <1>2, <2>1, <2>4
  <2>5. QED
    BY <2>3, <2>4
<1>6. ASSUME NEW n \in Node, TryCommit(n) PROVE LockOK(m)'
  <2>1. CASE m = n
    BY <1>1, <1>6, <2>1, TryCommitLock
  <2>2. CASE m # n
    <3>1. UNCHANGED <<highCert[m], locked[m], committed[m], committing[m], lockHalfSet[m], preparing[m]>>
      BY <1>6, <2>2 DEF TryCommit, SkipCommit, UpdateHighCert, UpdateLocked, Commit, state, commit
    <3>2. QED
      BY <1>2, <3>1
  <2>3. QED
    BY <2>1, <2>2
<1>7. ASSUME NEW n \in Node, Restart(n) PROVE LockOK(m)'
  <2>1. CASE m = n
    <3>1. /\ highCert'[m] = NoCert /\ locked'[m] = NoCert /\ committed'[m] = <<>>
          /\ committing'[m] = NoCert /\ lockHalfSet'[m] = FALSE
      BY <1>7, <2>1 DEF Restart
    <3>2. QED
      BY <3>1 DEF LockOK, NoCert, ViewOf, Genesis
  <2>2. CASE m # n
    <3>1. UNCHANGED <<highCert[m], locked[m], committed[m], committing[m], lockHalfSet[m], preparing[m]>>
      BY <1>7, <2>2 DEF Restart
    <3>2. QED
      BY <1>2, <3>1
  <2>3. QED
    BY <2>1, <2>2
<1>8. CASE UNCHANGED vars
  BY <1>2, <1>8 DEF vars
<1>9. QED
  BY <1>3, <1>4, <1>5, <1>6, <1>7, <1>8 DEF Next, Run, HandlePrepare

\* Between commits the lock is the block committed last (onPrepare, UpdateLock),
\* and but for the moment between UpdateLock's two writes HighCert is not below
\* it: what a leader proposes passes its own lock, unless it reads HighCert in
\* that moment, or a commit comes before its proposal is handled.
THEOREM LockCorrect == Spec => []LockFollowsCommits
<1>1. Spec => []TypeInv
  BY TypeInvariant
<1>2. LockInv => LockFollowsCommits
  BY DEF LockInv, LockOK, LockFollowsCommits
<1>3. QED
  BY <1>1, <1>2, InitLock, NextLock, PTL DEF Spec

-----------------------------------------------------------------------------
(***************************************************************************)
(* Proposals                                                               *)
(***************************************************************************)

\* A published proposal is of an earlier run of its leader's process, of a view
\* the leader has left, or of the view it is in the middle of.
Published(h) ==
  \/ h[2] < incarnation[LeaderOf(ViewOf(h))]
  \/ /\ h[2] = incarnation[LeaderOf(ViewOf(h))]
     /\ \/ ViewOf(h) <= view[LeaderOf(ViewOf(h))]
        \/ ViewOf(h) = view[LeaderOf(ViewOf(h))] + 1 /\ pc[LeaderOf(ViewOf(h))] # "loop"

ProposalInv ==
  /\ \A h \in Hash : Proposed(h) => Published(h)
  /\ \A h \in Hash : ~Proposed(h) => block[h] = NoBlock

LEMMA HashParts ==
  \A h \in Hash : /\ ViewOf(h) \in Nat /\ h[2] \in 0..MaxRestarts /\ h = <<ViewOf(h), h[2]>>
                 /\ LeaderOf(ViewOf(h)) \in Node
<1> SUFFICES ASSUME NEW h \in Hash
             PROVE  /\ ViewOf(h) \in Nat /\ h[2] \in 0..MaxRestarts /\ h = <<ViewOf(h), h[2]>>
                    /\ LeaderOf(ViewOf(h)) \in Node
  OBVIOUS
<1>1. ViewOf(h) \in Nat /\ ViewOf(h) > 0 /\ h[2] \in 0..MaxRestarts /\ h = <<ViewOf(h), h[2]>>
  BY BoundsAssumption DEF Hash, View, ViewOf
<1>2. (ViewOf(h) - 1) % N \in 0..(N - 1)
  BY <1>1, NAssumption
<1>3. QED
  BY <1>1, <1>2, NAssumption DEF LeaderOf, Node

\* A leader starts a round whose block is not published yet.
LEMMA FreshRound ==
  ASSUME TypeInv, ProposalInv, NEW n \in Node, StartRound(n)
  PROVE  Round(n) \in Hash /\ ~Proposed(Round(n)) /\ LeaderOf(ViewOf(Round(n))) = n
         /\ Round(n)[2] = incarnation[n] /\ ViewOf(Round(n)) = view[n] + 1
<1>1. Round(n) \in Hash /\ LeaderOf(ViewOf(Round(n))) = n /\ view[n] \in Nat /\ incarnation[n] \in Nat
  BY BoundsAssumption DEF StartRound, Round, Hash, View, ViewOf, TypeInv, TypeOK
<1>2. Round(n)[2] = incarnation[n] /\ ViewOf(Round(n)) = view[n] + 1 /\ pc[n] = "loop"
  BY DEF Round, ViewOf, StartRound
<1>3. ~Published(Round(n))
  BY <1>1, <1>2 DEF Published
<1>4. QED
  BY <1>1, <1>2, <1>3 DEF ProposalInv

LEMMA StartRoundBlock ==
  ASSUME TypeInv, ProposalInv, NEW n \in Node, StartRound(n)
  PROVE  /\ \A h \in Hash : h # Round(n) => block'[h] = block[h]
         /\ block'[Round(n)].height > 0
<1>1. PICK p \in Payloads : block' = [block EXCEPT ![Round(n)] =
         [height |-> Height(n) + 1, parent |-> highCert[n].h,
          payload |-> p, high |-> ViewOf(highCert[n].h)]]
  BY DEF StartRound
<1>2. Height(n) + 1 > 0
  BY DEF Height, TypeInv, TypeOK
<1>3. Round(n) \in Hash
  BY FreshRound
<1>4. QED
  BY <1>1, <1>2, <1>3 DEF TypeInv, TypeOK

\* Only StartRound writes block.
LEMMA BlocksFinal ==
  ASSUME TypeInv, ProposalInv, [Next]_vars
  PROVE  \A h \in Hash : Proposed(h) => block'[h] = block[h]
<1>1. ASSUME NEW n \in Node, Run(n) \/ HandlePropose(n) \/ HandlePrepare(n) \/ Restart(n), ~StartRound(n)
      PROVE  block' = block
  BY <1>1 DEF Run, CollectQuorum, CollectMismatch, CollectTimeout, FinishRound, WaitTimeout, ReceiveAdvance,
     HandlePropose, OnPropose, HandlePrepare, OnPrepare,
     TryCommit, SkipCommit, UpdateHighCert, UpdateLocked, Commit,
     Restart, network, state
<1>2. ASSUME NEW n \in Node, StartRound(n)
      PROVE  \A h \in Hash : Proposed(h) => block'[h] = block[h]
  BY <1>2, FreshRound, StartRoundBlock
<1>3. CASE UNCHANGED vars
  BY <1>3 DEF vars
<1>4. QED
  BY <1>1, <1>2, <1>3 DEF Next

LEMMA InitProposal == Init => ProposalInv
BY DEF Init, ProposalInv, Proposed, NoBlock

\* A process that goes on, in its view or to a later one, or that is restarted.
LEMMA ProposalStays ==
  ASSUME TypeInv, ProposalInv, block' = block,
         \A m \in Node :
           \/ incarnation'[m] = incarnation[m] + 1
           \/ /\ incarnation'[m] = incarnation[m]
              /\ \/ view'[m] = view[m] /\ (pc[m] # "loop" => pc'[m] # "loop")
                 \/ view'[m] \in Nat /\ view'[m] > view[m]
  PROVE  ProposalInv'
<1>1. ASSUME NEW h \in Hash, Proposed(h) PROVE Published(h)'
  <2> DEFINE m == LeaderOf(ViewOf(h))
  <2>1. m \in Node /\ m' = m /\ ViewOf(h) \in Nat /\ h[2] \in Nat
    BY HashParts DEF LeaderOf, ViewOf
  <2>2. view[m] \in Nat /\ incarnation[m] \in Nat
    BY <2>1 DEF TypeInv, TypeOK
  <2>3. Published(h)
    BY <1>1 DEF ProposalInv
  <2>4. QED
    BY <2>1, <2>2, <2>3 DEF Published
<1>2. QED
  BY <1>1 DEF ProposalInv, Proposed

LEMMA NextProposal == TypeInv /\ ProposalInv /\ [Next]_vars => ProposalInv'
<1> SUFFICES ASSUME TypeInv, ProposalInv, [Next]_vars PROVE ProposalInv'
  OBVIOUS
<1> USE DEF TypeInv, TypeOK
<1>1. ASSUME NEW n \in Node, StartRound(n) PROVE ProposalInv'
  <2>1. ASSUME NEW h \in Hash, Proposed(h)' PROVE Published(h)'
    <3> DEFINE m == LeaderOf(ViewOf(h))
    <3>1. m \in Node /\ ViewOf(h) \in Nat
      BY HashParts
    <3>2. /\ UNCHANGED <<view, incarnation>>
          /\ \A k \in Node : pc[k] # "loop" => pc'[k] # "loop"
          /\ pc'[n] # "loop"
      BY <1>1 DEF StartRound
    <3>3. CASE h = Round(n)
      BY <1>1, <3>2, <3>3, FreshRound DEF Published
    <3>4. CASE h # Round(n)
      <4>1. Proposed(h)
        BY <1>1, <2>1, <3>4, StartRoundBlock DEF Proposed
      <4>2. Published(h)
        BY <4>1 DEF ProposalInv
      <4>3. QED
        BY <3>1, <3>2, <4>2 DEF Published
    <3>5. QED
      BY <3>3, <3>4
  <2>2. ASSUME NEW h \in Hash, ~Proposed(h)' PROVE block'[h] = NoBlock
    <3>1. h # Round(n)
      BY <1>1, <2>2, StartRoundBlock DEF Proposed
    <3>2. block'[h] = block[h]
      BY <1>1, <3>1, StartRoundBlock
    <3>3. QED
      BY <2>2, <3>2 DEF ProposalInv, Proposed
  <2>3. QED
    BY <2>1, <2>2 DEF ProposalInv
<1>2. ASSUME NEW n \in Node, CollectQuorum(n) \/ CollectMismatch(n) \/ CollectTimeout(n)
      PROVE  ProposalInv'
  <2>1. block' = block /\ UNCHANGED <<view, incarnation>> /\ \A m \in Node : pc[m] # "loop" => pc'[m] # "loop"
    BY <1>2 DEF CollectQuorum, CollectMismatch, CollectTimeout, network, state
  <2>2. QED
    BY <2>1, ProposalStays
<1>3. ASSUME NEW n \in Node, FinishRound(n) \/ WaitTimeout(n) \/ ReceiveAdvance(n)
      PROVE  ProposalInv'
  <2>1. view'[n] \in Nat /\ (view'[n] > view[n] \/ (view'[n] = view[n] /\ pc'[n] = pc[n]))
    <3>1. view[n] \in Nat
      BY BoundsAssumption
    <3>2. CASE FinishRound(n) \/ WaitTimeout(n)
      BY <3>1, <3>2 DEF FinishRound, WaitTimeout
    <3>3. CASE ReceiveAdvance(n)
      <4>1. Head(viewAdvanceCh[n]) \in Nat
        <5>1. viewAdvanceCh[n] \in Seq(View) /\ viewAdvanceCh[n] # <<>>
          BY <3>3 DEF ReceiveAdvance
        <5>2. Head(viewAdvanceCh[n]) \in View
          BY <5>1
        <5>3. QED
          BY <5>2 DEF View
      <4>2. view'[n] = Advance(view[n], Head(viewAdvanceCh[n])) /\ pc'[n] = pc[n]
        BY <3>3 DEF ReceiveAdvance
      <4>3. QED
        BY <3>1, <4>1, <4>2 DEF Advance
    <3>4. QED
      BY <1>3, <3>2, <3>3
  <2>2. /\ block' = block /\ UNCHANGED incarnation
        /\ \A m \in Node \ {n} : view'[m] = view[m] /\ pc'[m] = pc[m]
    BY <1>3 DEF FinishRound, WaitTimeout, ReceiveAdvance, control, network
  <2>3. QED
    BY <2>1, <2>2, ProposalStays
<1>4. ASSUME NEW n \in Node, HandlePropose(n) \/ HandlePrepare(n) PROVE ProposalInv'
  <2>1. UNCHANGED <<block, view, pc, incarnation>>
    BY <1>4 DEF HandlePropose, OnPropose, HandlePrepare, OnPrepare,
       TryCommit, SkipCommit, UpdateHighCert, UpdateLocked, Commit,
       control, network, state
  <2>2. QED
    BY <2>1, ProposalStays
<1>5. ASSUME NEW n \in Node, Restart(n) PROVE ProposalInv'
  <2>1. /\ block' = block /\ incarnation'[n] = incarnation[n] + 1
        /\ \A m \in Node \ {n} : UNCHANGED <<incarnation[m], view[m], pc[m]>>
    BY <1>5 DEF Restart
  <2>2. QED
    BY <2>1, ProposalStays
<1>6. CASE UNCHANGED vars
  BY <1>6, ProposalStays DEF vars
<1>7. QED
  BY <1>1, <1>2, <1>3, <1>4, <1>5, <1>6 DEF Next, Run

-----------------------------------------------------------------------------
(***************************************************************************)
(* What a certificate names                                                *)
(***************************************************************************)

\* app is a state in which h, if it carries transactions, is executed last.
NamesResult(h, app) == block[h].payload => app # <<>> /\ app[Len(app)] = h

\* Votes and certificates are for published blocks and name their result.
ResultInv ==
  /\ \A h \in Hash : \A x \in votes[h] : Proposed(h) /\ NamesResult(h, x.app)
  /\ \A c \in certs : Proposed(c.h) /\ NamesResult(c.h, c.app)

BlockInv == TypeInv /\ ProposalInv /\ ResultInv

LEMMA BlockTypes ==
  ASSUME BlockInv
  PROVE  /\ \A c \in certs : c \in Certificate /\ c.h \in Hash
         /\ \A h \in Hash : \A x \in votes[h] : x \in Vote
BY DEF BlockInv, TypeInv, TypeOK, Certificate

LEMMA InitResult == Init => ResultInv
BY DEF Init, ResultInv

\* What is published and named stays so.
LEMMA ResultStays ==
  ASSUME BlockInv, [Next]_vars, NEW h \in Hash, NEW app, Proposed(h), NamesResult(h, app)
  PROVE  Proposed(h)' /\ NamesResult(h, app)'
<1>1. block'[h] = block[h]
  BY BlocksFinal DEF BlockInv
<1>2. QED
  BY <1>1 DEF Proposed, NamesResult

LEMMA VotesNameResult ==
  ASSUME BlockInv, [Next]_vars, NEW n \in Node, NEW h \in Hash, OnPropose(n, h)
  PROVE  \A g \in Hash : \A x \in votes'[g] : Proposed(g) /\ NamesResult(g, x.app)
<1> DEFINE v == [from |-> n, inc |-> incarnation[n], app |-> AppHash(n, h)]
<1>1. Proposed(h) /\ (votes' = votes \/ votes' = [votes EXCEPT ![h] = AddVote(@, v)])
  BY DEF OnPropose
<1>2. \A g \in Hash : votes'[g] = votes[g] \/ (g = h /\ votes'[g] = votes[g] \cup {v})
  BY <1>1 DEF AddVote, BlockInv, TypeInv, TypeOK
<1>3. NamesResult(h, v.app)
  <2>1. books[n] \in Seq(Hash)
    BY DEF BlockInv, TypeInv, TypeOK
  <2>2. /\ Append(books[n], h) # <<>>
        /\ Append(books[n], h)[Len(Append(books[n], h))] = h
    BY <2>1
  <2>3. QED
    BY <2>2 DEF NamesResult, AppHash, Execute
<1>4. QED
  BY <1>1, <1>2, <1>3 DEF BlockInv, ResultInv

LEMMA NextResult == ASSUME BlockInv, [Next]_vars PROVE ResultInv'
<1>1. ASSUME \A h \in Hash : \A x \in votes'[h] : Proposed(h) /\ NamesResult(h, x.app),
             \A c \in certs' : c.h \in Hash /\ Proposed(c.h) /\ NamesResult(c.h, c.app)
      PROVE  ResultInv'
  BY <1>1, ResultStays DEF ResultInv
<1>2. ASSUME NEW n \in Node, CollectQuorum(n) PROVE ResultInv'
  <2>1. Round(n) \in Hash
    BY <1>2 DEF CollectQuorum, BlockInv, TypeInv, RoundOK
  <2>2. PICK a \in votes[Round(n)] : certs' = certs \cup {[h |-> Round(n), app |-> a.app]}
    BY <1>2 DEF CollectQuorum
  <2>3. Proposed(Round(n)) /\ NamesResult(Round(n), a.app)
    BY <2>1 DEF BlockInv, ResultInv
  <2>4. \A c \in certs' : c.h \in Hash /\ Proposed(c.h) /\ NamesResult(c.h, c.app)
    BY <2>1, <2>2, <2>3, BlockTypes DEF BlockInv, ResultInv
  <2>5. votes' = votes
    BY <1>2 DEF CollectQuorum
  <2>6. QED
    BY <1>1, <2>4, <2>5 DEF BlockInv, ResultInv
<1>3. ASSUME NEW n \in Node, NEW h \in Hash, OnPropose(n, h) PROVE ResultInv'
  <2>1. certs' = certs
    BY <1>3 DEF OnPropose
  <2>2. QED
    BY <1>1, <1>3, <2>1, VotesNameResult, BlockTypes DEF BlockInv, ResultInv
<1>4. ASSUME UNCHANGED <<votes, certs>> PROVE ResultInv'
  BY <1>1, <1>4, BlockTypes DEF BlockInv, ResultInv
<1>5. ASSUME NEW n \in Node,
             \/ StartRound(n) \/ CollectMismatch(n) \/ CollectTimeout(n) \/ FinishRound(n)
             \/ WaitTimeout(n) \/ ReceiveAdvance(n) \/ HandlePrepare(n) \/ Restart(n)
      PROVE  UNCHANGED <<votes, certs>>
  BY <1>5 DEF StartRound, CollectMismatch, CollectTimeout, FinishRound, WaitTimeout, ReceiveAdvance,
     HandlePrepare, OnPrepare,
     TryCommit, SkipCommit, UpdateHighCert, UpdateLocked, Commit,
     Restart, network, state
<1>6. CASE UNCHANGED vars
  BY <1>4, <1>6 DEF vars
<1>7. QED
  BY <1>2, <1>3, <1>4, <1>5, <1>6 DEF Next, Run, HandlePropose

LEMMA BlockInvariant == Spec => []BlockInv
<1>1. Init => BlockInv
  BY InitType, InitProposal, InitResult DEF BlockInv
<1>2. BlockInv /\ [Next]_vars => BlockInv'
  BY NextType, NextProposal, NextResult DEF BlockInv
<1>3. QED
  BY <1>1, <1>2, PTL DEF Spec

\* The AppHash of a certificate is the state after its own block (onPropose
\* executes before it votes), whoever restarts and whatever is lost.
THEOREM CertificatesNameResults == Spec => []CertNamesResult
<1>1. BlockInv => CertNamesResult
  BY DEF BlockInv, ResultInv, NamesResult, CertNamesResult
<1>2. QED
  BY <1>1, BlockInvariant, PTL

-----------------------------------------------------------------------------
(***************************************************************************)
(* Two-chains                                                              *)
(***************************************************************************)

\* What a validator has stored and is working on are published certificates,
\* stored under their view.
Kept(n) ==
  /\ \A v \in View : certByView[n][v] # NoCert =>
       certByView[n][v] \in certs /\ ViewOf(certByView[n][v].h) = v
  /\ preparing[n] # NoCert => preparing[n] \in certs

\* The reasons for which committing h is right.
TwoChain(h) ==
  /\ Certified(h)
  /\ \E c \in certs : ViewOf(c.h) = ViewOf(h) + 1 /\ block[c.h].parent = h

\* A commit that has begun: what is committed is the parent of the block whose
\* certificate n is working on.
Begun(n) ==
  committing[n] # NoCert =>
    /\ preparing[n] # NoCert
    /\ committing[n].h \in Hash
    /\ ViewOf(preparing[n].h) = ViewOf(committing[n].h) + 1
    /\ TwoChain(committing[n].h)

ChainInv ==
  /\ BlockInv
  /\ \A n \in Node : Kept(n) /\ Begun(n)
  /\ \A n \in Node : \A i \in 1..Len(committed[n]) : TwoChain(committed[n][i])

\* Certificates are never withdrawn.
LEMMA CertsGrow == [Next]_vars => certs \subseteq certs'
<1>1. ASSUME NEW n \in Node, Run(n) \/ HandlePropose(n) \/ HandlePrepare(n) \/ Restart(n)
      PROVE  certs \subseteq certs'
  BY <1>1 DEF Run, StartRound, CollectQuorum, CollectMismatch, CollectTimeout, FinishRound, WaitTimeout,
     ReceiveAdvance, HandlePropose, OnPropose, HandlePrepare, OnPrepare,
     TryCommit, SkipCommit, UpdateHighCert, UpdateLocked, Commit,
     Restart, network, state
<1>2. QED
  BY <1>1 DEF Next, vars

LEMMA TwoChainStays ==
  ASSUME BlockInv, [Next]_vars, NEW h, TwoChain(h) PROVE TwoChain(h)'
<1>1. certs \subseteq certs'
  BY CertsGrow
<1>2. \A c \in certs : block'[c.h] = block[c.h]
  BY BlocksFinal, BlockTypes DEF BlockInv, ResultInv
<1>3. QED
  BY <1>1, <1>2 DEF TwoChain, Certified, ViewOf

\* A certificate that is stored under its view.
LEMMA KeptStored ==
  ASSUME BlockInv, certs \subseteq certs', NEW n \in Node, NEW c \in certs', c \in Certificate,
         certByView' = [certByView EXCEPT ![n][ViewOf(c.h)] = c],
         \A m \in Node : Kept(m), \A m \in Node : preparing'[m] # NoCert => preparing'[m] \in certs'
  PROVE  \A m \in Node : Kept(m)'
<1>1. ViewOf(c.h) \in View /\ c # NoCert
  BY HashFacts DEF Certificate, CertOrNil
<1>2. ASSUME NEW m \in Node, NEW v \in View, certByView'[m][v] # NoCert
      PROVE  certByView'[m][v] \in certs' /\ ViewOf(certByView'[m][v].h) = v
  <2>1. certByView'[m][v] = (IF m = n /\ v = ViewOf(c.h) THEN c ELSE certByView[m][v])
    BY DEF BlockInv, TypeInv, TypeOK
  <2>2. QED
    BY <1>2, <2>1 DEF Kept
<1>3. QED
  BY <1>2 DEF Kept, ViewOf

LEMMA NextKept ==
  ASSUME BlockInv, \A n \in Node : Kept(n), [Next]_vars PROVE \A n \in Node : Kept(n)'
<1>1. certs \subseteq certs'
  BY CertsGrow
<1>2. ASSUME NEW n \in Node, CollectQuorum(n) PROVE \A m \in Node : Kept(m)'
  <2>1. Round(n) \in Hash
    BY <1>2 DEF CollectQuorum, BlockInv, TypeInv, RoundOK
  <2>2. PICK a \in votes[Round(n)] :
          LET cert == [h |-> Round(n), app |-> a.app] IN
            /\ certs' = certs \cup {cert}
            /\ certByView' = [certByView EXCEPT ![n][ViewOf(cert.h)] = cert]
    BY <1>2 DEF CollectQuorum
  <2> DEFINE cert == [h |-> Round(n), app |-> a.app]
  <2>3. cert \in Certificate
    BY <2>1, BlockTypes DEF Certificate, Vote
  <2>4. cert \in certs' /\ certByView' = [certByView EXCEPT ![n][ViewOf(cert.h)] = cert]
    BY <2>2
  <2>5. preparing' = preparing
    BY <1>2 DEF CollectQuorum
  <2>6. \A m \in Node : preparing'[m] # NoCert => preparing'[m] \in certs'
    BY <1>1, <2>5 DEF Kept
  <2> HIDE DEF cert
  <2>7. QED
    BY <1>1, <2>3, <2>4, <2>6, KeptStored
<1>3. ASSUME NEW n \in Node, NEW c \in certs, OnPrepare(n, c) PROVE \A m \in Node : Kept(m)'
  <2>1. c \in Certificate /\ c \in certs'
    BY <1>1, BlockTypes
  <2>2. /\ certByView' = [certByView EXCEPT ![n][ViewOf(c.h)] = c]
        /\ preparing' = [preparing EXCEPT ![n] = c]
    BY <1>3 DEF OnPrepare
  <2>3. \A m \in Node : preparing'[m] # NoCert => preparing'[m] \in certs'
    BY <1>1, <2>1, <2>2 DEF Kept, BlockInv, TypeInv, TypeOK
  <2>4. QED
    BY <1>1, <2>1, <2>2, <2>3, KeptStored
<1>4. ASSUME \A m \in Node : /\ certByView'[m] = certByView[m] \/ certByView'[m] = [v \in View |-> NoCert]
                             /\ preparing'[m] \in {preparing[m], NoCert}
      PROVE  \A m \in Node : Kept(m)'
  BY <1>1, <1>4 DEF Kept, ViewOf
<1>5. ASSUME NEW n \in Node,
             \/ StartRound(n) \/ CollectMismatch(n) \/ CollectTimeout(n) \/ FinishRound(n)
             \/ WaitTimeout(n) \/ ReceiveAdvance(n) \/ HandlePropose(n)
      PROVE  UNCHANGED <<certByView, preparing>>
  BY <1>5 DEF StartRound, CollectMismatch, CollectTimeout, FinishRound, WaitTimeout, ReceiveAdvance,
     HandlePropose, OnPropose, state, control
<1>6. ASSUME NEW n \in Node, TryCommit(n) \/ Restart(n) PROVE \A m \in Node : Kept(m)'
  <2>1. /\ certByView' = certByView \/ certByView' = [certByView EXCEPT ![n] = [v \in View |-> NoCert]]
        /\ preparing' = preparing \/ preparing' = [preparing EXCEPT ![n] = NoCert]
    BY <1>6 DEF TryCommit, SkipCommit, UpdateHighCert, UpdateLocked, Commit, Restart, state
  <2>2. QED
    BY <1>4, <2>1 DEF BlockInv, TypeInv, TypeOK
<1>7. CASE UNCHANGED vars
  BY <1>4, <1>7 DEF vars
<1>8. QED
  BY <1>2, <1>3, <1>4, <1>5, <1>6, <1>7 DEF Next, Run, HandlePrepare

\* The two-chain rule of onPrepare commits the parent of the certified block
\* when it is the block certified in the view before.
LEMMA CommitIsTwoChain ==
  ASSUME BlockInv, NEW n \in Node, Kept(n), preparing[n] # NoCert, CommitReady(n, preparing[n])
  PROVE  /\ PrevCert(n, preparing[n]).h \in Hash
         /\ ViewOf(preparing[n].h) = ViewOf(PrevCert(n, preparing[n]).h) + 1
         /\ TwoChain(PrevCert(n, preparing[n]).h)
<1> DEFINE c == preparing[n]
           prev == PrevCert(n, c)
<1>1. c \in certs /\ c.h \in Hash /\ ViewOf(c.h) \in View
  BY BlockTypes, HashFacts DEF Kept
<1>2. prev # NoCert /\ block[c.h].parent = prev.h
  BY DEF CommitReady
<1>3. ViewOf(c.h) > 1 /\ prev = certByView[n][ViewOf(c.h) - 1]
  BY <1>2 DEF PrevCert
<1>4. ViewOf(c.h) - 1 \in View
  BY <1>1, <1>3, BoundsAssumption DEF View
<1>5. prev \in certs /\ ViewOf(prev.h) = ViewOf(c.h) - 1
  BY <1>2, <1>3, <1>4 DEF Kept
<1>6. ViewOf(c.h) = ViewOf(prev.h) + 1
  BY <1>1, <1>5 DEF View
<1>7. QED
  BY <1>1, <1>2, <1>5, <1>6, BlockTypes DEF TwoChain, Certified

LEMMA NextBegun ==
  ASSUME BlockInv, \A n \in Node : Kept(n) /\ Begun(n), [Next]_vars, NEW m \in Node PROVE Begun(m)'
<1> USE DEF BlockInv, TypeInv, TypeOK
<1>1. ASSUME committing'[m] = NoCert \/ UNCHANGED <<committing[m], preparing[m]>> PROVE Begun(m)'
  <2>1. SUFFICES ASSUME committing'[m] # NoCert PROVE Begun(m)'
    BY DEF Begun
  <2>2. Begun(m) /\ UNCHANGED <<committing[m], preparing[m]>>
    BY <1>1, <2>1
  <2>3. committing[m].h \in Hash /\ TwoChain(committing[m].h)
    BY <2>1, <2>2 DEF Begun
  <2>4. ASSUME NEW g, g = committing[m].h PROVE TwoChain(g)'
    BY <2>3, <2>4, TwoChainStays
  <2>5. TwoChain(committing[m].h)'
    BY <2>2, <2>4
  <2>6. QED
    BY <2>2, <2>5 DEF Begun, ViewOf
<1>2. ASSUME NEW n \in Node, Run(n) \/ HandlePropose(n) PROVE Begun(m)'
  <2>1. UNCHANGED <<committing, preparing>>
    BY <1>2 DEF Run, StartRound, CollectQuorum, CollectMismatch, CollectTimeout, FinishRound, WaitTimeout,
       ReceiveAdvance, HandlePropose, OnPropose, control, commit
  <2>2. QED
    BY <1>1, <2>1
<1>3. ASSUME NEW n \in Node, NEW c \in certs, OnPrepare(n, c) PROVE Begun(m)'
  <2>1. preparing[n] = NoCert /\ committing' = committing /\ (m # n => preparing'[m] = preparing[m])
    BY <1>3 DEF OnPrepare, commit
  <2>2. committing[n] = NoCert
    BY <2>1 DEF Begun
  <2>3. QED
    BY <1>1, <2>1, <2>2
<1>4. ASSUME NEW n \in Node, UpdateHighCert(n) PROVE Begun(m)'
  <2> DEFINE c == preparing[n]
             prev == PrevCert(n, c)
  <2>1. committing' = [committing EXCEPT ![n] = prev] /\ preparing' = preparing
        /\ UNCHANGED <<block, certs>>
    BY <1>4 DEF UpdateHighCert, network
  <2>2. prev.h \in Hash /\ ViewOf(c.h) = ViewOf(prev.h) + 1 /\ TwoChain(prev.h) /\ c # NoCert
    BY <1>4, CommitIsTwoChain DEF UpdateHighCert
  <2> HIDE DEF prev
  <2>3. CASE m = n
    <3>1. committing'[m] = prev /\ preparing'[m] = c
      BY <2>1, <2>3
    <3>2. TwoChain(committing[m].h)'
      BY <2>1, <2>2, <3>1 DEF TwoChain, Certified, ViewOf
    <3>3. QED
      BY <2>2, <3>1, <3>2 DEF Begun, ViewOf
  <2>4. CASE m # n
    BY <1>1, <2>1, <2>4
  <2>5. QED
    BY <2>3, <2>4
<1>5. ASSUME NEW n \in Node, SkipCommit(n) \/ UpdateLocked(n) \/ Commit(n) \/ Restart(n) PROVE Begun(m)'
  <2>1. CASE SkipCommit(n)
    <3>1. committing[n] = NoCert /\ committing' = committing /\ (m # n => preparing'[m] = preparing[m])
      BY <2>1 DEF SkipCommit, commit
    <3>2. QED
      BY <1>1, <3>1
  <2>2. CASE UpdateLocked(n)
    BY <1>1, <2>2 DEF UpdateLocked
  <2>3. CASE Commit(n) \/ Restart(n)
    <3>1. committing'[n] = NoCert /\ (m # n => UNCHANGED <<committing[m], preparing[m]>>)
      BY <2>3 DEF Commit, Restart
    <3>2. QED
      BY <1>1, <3>1
  <2>4. QED
    BY <1>5, <2>1, <2>2, <2>3
<1>6. CASE UNCHANGED vars
  BY <1>1, <1>6 DEF vars
<1>7. QED
  BY <1>2, <1>3, <1>4, <1>5, <1>6 DEF Next, HandlePrepare, TryCommit

\* What happens to the committed blocks of a validator.
LEMMA CommitStep ==
  ASSUME BlockInv, [Next]_vars, NEW n \in Node
  PROVE  \/ committed'[n] = committed[n]
         \/ committed'[n] = <<>> /\ Restart(n)
         \/ /\ committing[n] # NoCert
            /\ committed'[n] = Append(committed[n], committing[n].h)
<1> USE DEF BlockInv, TypeInv, TypeOK
<1>1. ASSUME NEW m \in Node, Run(m) \/ HandlePropose(m) \/ \E c \in certs : OnPrepare(m, c)
      PROVE  committed' = committed
  BY <1>1 DEF Run, StartRound, CollectQuorum, CollectMismatch, CollectTimeout, FinishRound, WaitTimeout,
     ReceiveAdvance, HandlePropose, OnPropose, OnPrepare, state
<1>2. ASSUME NEW m \in Node, SkipCommit(m) \/ UpdateHighCert(m) \/ UpdateLocked(m)
      PROVE  committed' = committed
  BY <1>2 DEF SkipCommit, UpdateHighCert, UpdateLocked, state
<1>3. ASSUME NEW m \in Node, Commit(m)
      PROVE  committing[m] # NoCert /\ committed' = [committed EXCEPT ![m] = Append(@, committing[m].h)]
  BY <1>3 DEF Commit
<1>4. ASSUME NEW m \in Node, Restart(m) PROVE committed' = [committed EXCEPT ![m] = <<>>]
  BY <1>4 DEF Restart
<1>5. QED
  BY <1>1, <1>2, <1>3, <1>4 DEF Next, HandlePrepare, TryCommit, vars

LEMMA NextChain == ChainInv /\ [Next]_vars => ChainInv'
<1> SUFFICES ASSUME ChainInv, [Next]_vars PROVE ChainInv'
  OBVIOUS
<1> USE DEF ChainInv
<1>1. BlockInv'
  BY NextType, NextProposal, NextResult DEF BlockInv
<1>2. \A n \in Node : Kept(n)' /\ Begun(n)'
  BY NextKept, NextBegun
<1>3. ASSUME NEW n \in Node, NEW i \in 1..Len(committed'[n]), NEW g, g = committed'[n][i]
      PROVE  TwoChain(g)'
  <2>1. committed[n] \in Seq(Hash)
    BY DEF BlockInv, TypeInv, TypeOK
  <2>2. TwoChain(g)
    <3>1. CASE committed'[n] = committed[n]
      BY <1>3, <3>1
    <3>2. CASE committed'[n] = <<>>
      BY <1>3, <3>2
    <3>3. CASE committing[n] # NoCert /\ committed'[n] = Append(committed[n], committing[n].h)
      <4> DEFINE h == committing[n].h
      <4>1. h \in Hash /\ TwoChain(h)
        BY <3>3 DEF Begun
      <4> HIDE DEF h
      <4>2. committed'[n] = Append(committed[n], h)
        BY <3>3 DEF h
      <4>3. i \in 1..Len(committed[n]) \/ committed'[n][i] = h
        BY <2>1, <4>1, <4>2
      <4>4. i \in 1..Len(committed[n]) => committed'[n][i] = committed[n][i]
        BY <2>1, <4>1, <4>2
      <4>5. QED
        BY <1>3, <4>1, <4>3, <4>4
    <3>4. QED
      BY <3>1, <3>2, <3>3, CommitStep
  <2>3. QED
    BY <2>2, TwoChainStays
<1>4. \A n \in Node : \A i \in 1..Len(committed'[n]) : TwoChain(committed[n][i])'
  BY <1>3
<1>5. QED
  BY <1>1, <1>2, <1>4

LEMMA ChainInvariant == Spec => []ChainInv
<1>1. Init => ChainInv
  <2> SUFFICES ASSUME Init PROVE ChainInv
    OBVIOUS
  <2>1. BlockInv
    BY InitType, InitProposal, InitResult DEF BlockInv
  <2>2. \A n \in Node : Kept(n) /\ Begun(n) /\ committed[n] = <<>>
    BY DEF Init, Kept, Begun
  <2>3. QED
    BY <2>1, <2>2 DEF ChainInv
<1>2. QED
  BY <1>1, NextChain, PTL DEF Spec

\* Whatever a validator commits is certified, and so is a block of the next
\* view whose parent it is (the rule of onPrepare over SaveCert and GetCert):
\* no restart, no late or lost message and no race makes it commit on less.
THEOREM CommitsFollowTwoChains == Spec => []CommitsAreTwoChains
<1>1. ChainInv => CommitsAreTwoChains
  BY DEF ChainInv, TwoChain, CommitsAreTwoChains
<1>2. QED
  BY <1>1, ChainInvariant, PTL

-----------------------------------------------------------------------------
(***************************************************************************)
(* A block is committed once                                               *)
(***************************************************************************)

\* One validator, restarted or not, or several that are not.  With several, a
\* leader that is restarted and led to propose in its old view again makes its
\* peers commit the parent a second time.
LeadersStay == N = 1 \/ MaxRestarts = 0

\* A certificate is of an earlier run of its leader's process, of a view the
\* leader has left, or of the view it is just leaving.
Formed(h) ==
  LET n == LeaderOf(ViewOf(h)) IN
    \/ h[2] < incarnation[n]
    \/ h[2] = incarnation[n] /\ (ViewOf(h) <= view[n] \/ (ViewOf(h) = view[n] + 1 /\ pc[n] = "observe"))

\* Hence one certificate for a block.
CertInv ==
  /\ \A n \in Node : pc[n] \in {"collect", "observe"} => LeaderOf(view[n] + 1) = n
  /\ \A c \in certs : Formed(c.h)
  /\ \A c, d \in certs : c.h = d.h => c = d

Current(n) == {c \in certs : c.h[2] = incarnation[n]}
Handled(n) == seenPrepare[n] \ {preparing[n]}

\* What is left to handle is of this run of the process, and behind each block
\* that n committed in it is a certificate n has handled.
Once(n) ==
  /\ certs \ seenPrepare[n] \subseteq Current(n)
  /\ preparing[n] # NoCert => preparing[n] \in Current(n) \cap seenPrepare[n]
  /\ \A i \in 1..Len(committed[n]) :
       \E c \in Handled(n) \cap Current(n) : ViewOf(c.h) = ViewOf(committed[n][i]) + 1

OnceInv == ChainInv /\ CertInv /\ \A n \in Node : Once(n)

LEMMA CertStays ==
  ASSUME BlockInv, CertInv, certs' = certs,
         \A m \in Node :
           \/ incarnation'[m] = incarnation[m] + 1
           \/ /\ incarnation'[m] = incarnation[m]
              /\ \/ view'[m] = view[m] /\ (pc[m] = "observe" => pc'[m] = "observe")
                 \/ view'[m] \in Nat /\ view'[m] > view[m],
         \A m \in Node : pc'[m] \in {"collect", "observe"} => LeaderOf(view'[m] + 1) = m
  PROVE  CertInv'
<1>1. ASSUME NEW c \in certs PROVE Formed(c.h)'
  <2> DEFINE m == LeaderOf(ViewOf(c.h))
  <2>1. c.h \in Hash /\ m \in Node /\ ViewOf(c.h) \in Nat /\ c.h[2] \in Nat
    BY BlockTypes, HashParts
  <2>2. view[m] \in Nat /\ incarnation[m] \in Nat
    BY <2>1 DEF BlockInv, TypeInv, TypeOK
  <2>3. Formed(c.h)
    BY DEF CertInv
  <2>4. QED
    BY <2>1, <2>2, <2>3 DEF Formed, LeaderOf, ViewOf
<1>2. QED
  BY <1>1 DEF CertInv, LeaderOf

LEMMA CollectCert ==
  ASSUME BlockInv, CertInv, NEW n \in Node, CollectQuorum(n) PROVE CertInv'
<1>1. Round(n) \in Hash /\ ViewOf(Round(n)) = view[n] + 1 /\ Round(n)[2] = incarnation[n]
  BY DEF CollectQuorum, BlockInv, TypeInv, RoundOK, Round, ViewOf
<1>2. PICK app : certs' = certs \cup {[h |-> Round(n), app |-> app]}
  BY DEF CollectQuorum
<1>3. UNCHANGED <<view, incarnation>> /\ pc[n] = "collect" /\ pc' = [pc EXCEPT ![n] = "observe"]
  BY DEF CollectQuorum
<1>4. pc'[n] = "observe" /\ \A m \in Node : m # n => pc'[m] = pc[m]
  BY <1>3 DEF BlockInv, TypeInv, TypeOK
<1>5. LeaderOf(ViewOf(Round(n))) = n
  BY <1>1, <1>3 DEF CertInv
<1>6. view[n] \in Nat /\ incarnation[n] \in Nat
  BY DEF BlockInv, TypeInv, TypeOK
<1>7. ~Formed(Round(n))
  BY <1>1, <1>3, <1>5, <1>6 DEF Formed
<1>8. \A c \in certs : c.h # Round(n)
  BY <1>7 DEF CertInv
<1>9. ASSUME NEW h \in Hash, Formed(h) \/ h = Round(n) PROVE Formed(h)'
  <2>1. CASE h = Round(n)
    BY <1>1, <1>3, <1>4, <1>5, <2>1 DEF Formed, LeaderOf, ViewOf
  <2>2. CASE Formed(h)
    <3>1. LeaderOf(ViewOf(h)) \in Node
      BY HashParts
    <3>2. QED
      BY <1>3, <1>4, <2>2, <3>1 DEF Formed, LeaderOf, ViewOf
  <2>3. QED
    BY <1>9, <2>1, <2>2
<1>10. \A c \in certs' : c.h \in Hash /\ (Formed(c.h) \/ c.h = Round(n))
  BY <1>1, <1>2, BlockTypes DEF CertInv
<1>11. \A c \in certs' : Formed(c.h)'
  BY <1>9, <1>10
<1>12. \A c, d \in certs' : c.h = d.h => c = d
  BY <1>2, <1>8 DEF CertInv
<1>13. \A m \in Node : pc'[m] \in {"collect", "observe"} => LeaderOf(view'[m] + 1) = m
  BY <1>3, <1>4 DEF CertInv
<1>14. QED
  BY <1>11, <1>12, <1>13 DEF CertInv, LeaderOf

LEMMA NextCert == ASSUME BlockInv, CertInv, [Next]_vars PROVE CertInv'
<1> USE DEF BlockInv, TypeInv, TypeOK
<1>1. ASSUME NEW n \in Node, StartRound(n) \/ CollectMismatch(n) \/ CollectTimeout(n) PROVE CertInv'
  <2>1. /\ UNCHANGED <<certs, view, incarnation>>
        /\ \A m \in Node : pc[m] = "observe" => pc'[m] = "observe"
    BY <1>1 DEF StartRound, CollectMismatch, CollectTimeout, network, state
  <2>2. \A m \in Node : pc'[m] \in {"collect", "observe"} => LeaderOf(view'[m] + 1) = m
    BY <1>1, <2>1 DEF StartRound, CollectMismatch, CollectTimeout, CertInv
  <2>3. QED
    BY <2>1, <2>2, CertStays
<1>2. ASSUME NEW n \in Node, FinishRound(n) \/ WaitTimeout(n) \/ ReceiveAdvance(n) PROVE CertInv'
  <2>1. /\ view'[n] \in Nat /\ (view'[n] > view[n] \/ (view'[n] = view[n] /\ pc'[n] = pc[n]))
        /\ pc'[n] = "loop"
    <3>1. view[n] \in Nat
      BY BoundsAssumption
    <3>2. CASE FinishRound(n) \/ WaitTimeout(n)
      BY <3>1, <3>2 DEF FinishRound, WaitTimeout, Waiting, control
    <3>3. CASE ReceiveAdvance(n)
      <4>1. Head(viewAdvanceCh[n]) \in Nat
        <5>1. viewAdvanceCh[n] \in Seq(View) /\ viewAdvanceCh[n] # <<>>
          BY <3>3 DEF ReceiveAdvance
        <5>2. Head(viewAdvanceCh[n]) \in View
          BY <5>1
        <5>3. QED
          BY <5>2 DEF View
      <4>2. view'[n] = Advance(view[n], Head(viewAdvanceCh[n])) /\ pc'[n] = pc[n] /\ pc[n] = "loop"
        BY <3>3 DEF ReceiveAdvance, Waiting
      <4>3. QED
        BY <3>1, <4>1, <4>2 DEF Advance
    <3>4. QED
      BY <1>2, <3>2, <3>3
  <2>2. /\ UNCHANGED <<certs, incarnation>>
        /\ \A m \in Node \ {n} : view'[m] = view[m] /\ pc'[m] = pc[m]
    BY <1>2 DEF FinishRound, WaitTimeout, ReceiveAdvance, control, network
  <2>3. \A m \in Node : pc'[m] \in {"collect", "observe"} => LeaderOf(view'[m] + 1) = m
    BY <2>1, <2>2 DEF CertInv
  <2>4. QED
    BY <2>1, <2>2, <2>3, CertStays
<1>3. ASSUME NEW n \in Node, HandlePropose(n) \/ HandlePrepare(n) PROVE CertInv'
  <2>1. UNCHANGED <<certs, view, pc, incarnation>>
    BY <1>3 DEF HandlePropose, OnPropose, HandlePrepare, OnPrepare,
       TryCommit, SkipCommit, UpdateHighCert, UpdateLocked, Commit,
       control, network, state
  <2>2. QED
    BY <2>1, CertStays DEF CertInv
<1>4. ASSUME NEW n \in Node, Restart(n) PROVE CertInv'
  <2>1. /\ certs' = certs /\ incarnation'[n] = incarnation[n] + 1 /\ pc'[n] = "loop"
        /\ \A m \in Node \ {n} : UNCHANGED <<incarnation[m], view[m], pc[m]>>
    BY <1>4 DEF Restart
  <2>2. \A m \in Node : pc'[m] \in {"collect", "observe"} => LeaderOf(view'[m] + 1) = m
    BY <2>1 DEF CertInv
  <2>3. QED
    BY <2>1, <2>2, CertStays
<1>5. CASE UNCHANGED vars
  BY <1>5, CertStays DEF vars, CertInv
<1>6. QED
  BY <1>1, <1>2, <1>3, <1>4, <1>5, CollectCert DEF Next, Run

LEMMA SameIncarnation ==
  ASSUME LeadersStay, BlockInv, NEW m \in Node, NEW n \in Node PROVE incarnation[m] = incarnation[n]
<1>1. CASE N = 1
  BY <1>1 DEF Node
<1>2. CASE MaxRestarts = 0
  BY <1>2 DEF BlockInv, TypeInv, TypeOK
<1>3. QED
  BY <1>1, <1>2 DEF LeadersStay

\* Nothing of Once(n) but the certificates changes.
LEMMA OnceStays ==
  ASSUME OnceInv, NEW n \in Node, certs \subseteq certs',
         \A c \in certs' \ certs : c.h[2] = incarnation[n],
         UNCHANGED <<seenPrepare[n], preparing[n], incarnation[n], committed[n]>>
  PROVE  Once(n)'
<1>1. Current(n) \subseteq Current(n)' /\ Handled(n)' = Handled(n)
  BY DEF Current, Handled
<1>2. certs' \ seenPrepare[n] \subseteq Current(n)'
  BY <1>1 DEF OnceInv, Once, Current
<1>3. QED
  BY <1>1, <1>2 DEF OnceInv, Once, ViewOf

LEMMA PrepareOnce ==
  ASSUME OnceInv, NEW n \in Node, NEW c \in certs, OnPrepare(n, c) PROVE Once(n)'
<1> USE DEF OnceInv, ChainInv, BlockInv, TypeInv, TypeOK
<1>1. /\ preparing[n] = NoCert /\ c \notin seenPrepare[n]
      /\ seenPrepare'[n] = seenPrepare[n] \cup {c} /\ preparing'[n] = c
      /\ UNCHANGED <<certs, incarnation, committed>>
  BY DEF OnPrepare
<1>2. Current(n)' = Current(n) /\ Handled(n) \subseteq Handled(n)'
  BY <1>1 DEF Current, Handled
<1>3. c \in Current(n)
  BY <1>1 DEF Once
<1>4. QED
  BY <1>1, <1>2, <1>3 DEF Once, ViewOf

LEMMA CommitOnce ==
  ASSUME OnceInv, NEW n \in Node, Commit(n) PROVE Once(n)'
<1> USE DEF OnceInv, ChainInv, BlockInv, TypeInv, TypeOK
<1> DEFINE c == preparing[n]
           h == committing[n].h
<1>1. committing[n] # NoCert /\ preparing'[n] = NoCert /\ UNCHANGED <<certs, seenPrepare, incarnation>>
  BY DEF Commit, network
<1>2. NoCert \notin Current(n)
  BY BlockTypes, HashFacts DEF Current
<1>3. Current(n)' = Current(n) /\ (Handled(n) \cup {c}) \cap Current(n) \subseteq Handled(n)' \cap Current(n)'
  BY <1>1, <1>2 DEF Current, Handled, Once
<1>4. c \in Current(n) /\ h \in Hash /\ ViewOf(c.h) = ViewOf(h) + 1
  BY <1>1 DEF Once, Begun
<1>5. committed[n] \in Seq(Hash) /\ committed'[n] = Append(committed[n], h)
  BY DEF Commit
<1> HIDE DEF c, h
<1>6. ASSUME NEW i \in 1..Len(committed'[n])
      PROVE  \E x \in Handled(n)' \cap Current(n)' : ViewOf(x.h) = ViewOf(committed'[n][i]) + 1
  <2>1. CASE committed'[n][i] = h
    BY <1>3, <1>4, <2>1
  <2>2. CASE i \in 1..Len(committed[n]) /\ committed'[n][i] = committed[n][i]
    BY <1>3, <2>2 DEF Once
  <2>3. QED
    BY <1>4, <1>5, <2>1, <2>2
<1>7. QED
  BY <1>1, <1>3, <1>6 DEF Once, ViewOf

LEMMA NextOnce == ASSUME LeadersStay, OnceInv, [Next]_vars PROVE \A n \in Node : Once(n)'
<1> USE DEF OnceInv, ChainInv
<1>0. TypeOK
  BY DEF BlockInv, TypeInv
<1>1. ASSUME NEW m \in Node, CollectQuorum(m), NEW n \in Node PROVE Once(n)'
  <2>1. UNCHANGED <<seenPrepare, preparing, incarnation, committed>> /\ certs \subseteq certs'
    BY <1>1 DEF CollectQuorum
  <2>2. \A c \in certs' \ certs : c.h[2] = incarnation[n]
    BY <1>1, SameIncarnation DEF CollectQuorum, Round
  <2>3. QED
    BY <2>1, <2>2, OnceStays
<1>2. ASSUME NEW m \in Node, NEW c \in certs, OnPrepare(m, c), NEW n \in Node PROVE Once(n)'
  <2>1. CASE n = m
    BY <1>2, <2>1, PrepareOnce
  <2>2. CASE n # m
    BY <1>0, <1>2, <2>2, OnceStays DEF OnPrepare, TypeOK
  <2>3. QED
    BY <2>1, <2>2
<1>3. ASSUME NEW m \in Node, TryCommit(m), NEW n \in Node PROVE Once(n)'
  <2>1. CASE n # m
    <3>1. UNCHANGED <<certs, seenPrepare, incarnation, preparing[n], committed[n]>>
      BY <1>0, <1>3, <2>1
      DEF TryCommit, SkipCommit, UpdateHighCert, UpdateLocked, Commit, TypeOK, network, state
    <3>2. QED
      BY <3>1, OnceStays
  <2>2. CASE n = m /\ Commit(m)
    BY <2>2, CommitOnce
  <2>3. CASE UpdateHighCert(m) \/ UpdateLocked(m)
    <3>1. UNCHANGED <<certs, seenPrepare, incarnation, preparing, committed>>
      BY <2>3 DEF UpdateHighCert, UpdateLocked, network
    <3>2. QED
      BY <3>1, OnceStays
  <2>4. CASE n = m /\ SkipCommit(m)
    <3>1. UNCHANGED <<certs, seenPrepare, incarnation, committed>> /\ preparing'[n] = NoCert
      BY <1>0, <2>4 DEF SkipCommit, TypeOK, network, state
    <3>2. NoCert \notin Current(n)
      BY BlockTypes, HashFacts DEF Current
    <3>3. Current(n)' = Current(n) /\ Handled(n) \cap Current(n) \subseteq Handled(n)' \cap Current(n)'
      BY <3>1, <3>2 DEF Current, Handled
    <3>4. QED
      BY <3>1, <3>3 DEF Once, ViewOf
  <2>5. QED
    BY <1>3, <2>1, <2>2, <2>3, <2>4 DEF TryCommit
<1>4. ASSUME NEW m \in Node, Restart(m), NEW n \in Node PROVE Once(n)'
  <2>1. N = 1
    BY <1>0, <1>4 DEF Restart, LeadersStay, TypeOK
  <2>2. n = m
    BY <2>1 DEF Node
  <2>3. seenPrepare'[n] = certs /\ committed'[n] = <<>> /\ preparing'[n] = NoCert /\ certs' = certs
    BY <1>0, <1>4, <2>1, <2>2 DEF Restart, TypeOK
  <2>4. QED
    BY <2>3 DEF Once
<1>5. ASSUME NEW m \in Node,
             \/ StartRound(m) \/ CollectMismatch(m) \/ CollectTimeout(m) \/ FinishRound(m)
             \/ WaitTimeout(m) \/ ReceiveAdvance(m) \/ HandlePropose(m)
      PROVE  UNCHANGED <<certs, seenPrepare, preparing, incarnation, committed>>
  BY <1>5 DEF StartRound, CollectMismatch, CollectTimeout, FinishRound, WaitTimeout, ReceiveAdvance,
     HandlePropose, OnPropose, network, state, control
<1>6. ASSUME UNCHANGED <<certs, seenPrepare, preparing, incarnation, committed>>, NEW n \in Node
      PROVE  Once(n)'
  BY <1>6, OnceStays
<1>7. CASE UNCHANGED vars
  BY <1>6, <1>7 DEF vars
<1>8. QED
  BY <1>1, <1>2, <1>3, <1>4, <1>5, <1>6, <1>7 DEF Next, Run, HandlePrepare

\* A validator that commits the parent of a second block has handled a
\* certificate of that view before, and there is only one.
LEMMA CommitIsFresh ==
  ASSUME OnceInv, NEW n \in Node, committing[n] # NoCert, NEW i \in 1..Len(committed[n])
  PROVE  committed[n][i] # committing[n].h
<1> SUFFICES ASSUME committed[n][i] = committing[n].h PROVE FALSE
  OBVIOUS
<1>1. PICK c \in Handled(n) \cap Current(n) : ViewOf(c.h) = ViewOf(committed[n][i]) + 1
  BY DEF OnceInv, Once
<1>2. preparing[n] \in Current(n) /\ preparing[n] # c
  BY <1>1 DEF OnceInv, ChainInv, Begun, Once, Handled
<1>3. ViewOf(preparing[n].h) = ViewOf(c.h)
  BY <1>1 DEF OnceInv, ChainInv, Begun
<1>4. preparing[n].h = c.h
  <2>1. c.h \in Hash /\ preparing[n].h \in Hash
    BY <1>1, <1>2, BlockTypes DEF OnceInv, ChainInv, Current
  <2>2. c.h[2] = preparing[n].h[2]
    BY <1>1, <1>2 DEF Current
  <2>3. QED
    BY <1>3, <2>1, <2>2, HashParts
<1>5. QED
  BY <1>1, <1>2, <1>4 DEF OnceInv, CertInv, Current

LEMMA NextDistinct == ASSUME OnceInv, CommitsAreDistinct, [Next]_vars PROVE CommitsAreDistinct'
<1> SUFFICES ASSUME NEW n \in Node, NEW i \in 1..Len(committed'[n]), NEW j \in 1..Len(committed'[n]),
                    committed'[n][i] = committed'[n][j]
             PROVE  i = j
  BY DEF CommitsAreDistinct
<1>1. CASE committed'[n] = committed[n]
  BY <1>1 DEF CommitsAreDistinct
<1>2. CASE committed'[n] = <<>>
  BY <1>2
<1>3. CASE committing[n] # NoCert /\ committed'[n] = Append(committed[n], committing[n].h)
  <2> DEFINE h == committing[n].h
             s == committed[n]
  <2>1. h \in Hash /\ s \in Seq(Hash) /\ \A k \in 1..Len(s) : s[k] # h
    BY <1>3, CommitIsFresh DEF OnceInv, ChainInv, Begun, BlockInv, TypeInv, TypeOK
  <2>2. \A k, l \in 1..Len(s) : s[k] = s[l] => k = l
    BY DEF CommitsAreDistinct
  <2>3. committed'[n] = Append(s, h)
    BY <1>3
  <2> HIDE DEF h, s
  <2>4. Len(committed'[n]) = Len(s) + 1 /\ committed'[n][Len(s) + 1] = h /\ Len(s) \in Nat
    BY <2>1, <2>3
  <2>5. \A k \in 1..Len(s) : committed'[n][k] = s[k]
    BY <2>1, <2>3
  <2>6. QED
    BY <2>1, <2>2, <2>4, <2>5
<1>4. QED
  BY <1>1, <1>2, <1>3, CommitStep DEF OnceInv, ChainInv

\* No block is committed twice by one validator (a leader forms one certificate
\* for a block, pubsub delivers it once, and the next view's certificate names
\* it as parent once), unless another validator is restarted.
THEOREM CommitsOnce == LeadersStay => (Spec => []CommitsAreDistinct)
<1> SUFFICES ASSUME LeadersStay PROVE Spec => []CommitsAreDistinct
  OBVIOUS
<1>1. Init => CertInv /\ CommitsAreDistinct /\ \A n \in Node : Once(n)
  BY DEF Init, CertInv, CommitsAreDistinct, Once
<1>2. ChainInv /\ CertInv /\ (\A n \in Node : Once(n)) /\ [Next]_vars => (CertInv /\ \A n \in Node : Once(n))'
  BY NextCert, NextOnce DEF OnceInv, ChainInv
<1>3. ChainInv /\ CertInv /\ (\A n \in Node : Once(n)) /\ CommitsAreDistinct /\ [Next]_vars => CommitsAreDistinct'
  BY NextDistinct DEF OnceInv
<1>4. QED
  BY <1>1, <1>2, <1>3, ChainInvariant, PTL DEF Spec

-----------------------------------------------------------------------------
(***************************************************************************)
(* Quorums, without restarts                                               *)
(*                                                                         *)
(* The argument: a validator takes a proposal once, so the pool of a       *)
(* proposal holds at most one vote of each; the leader takes exactly Need  *)
(* of them; a vote carries a prefix of what its caster has executed for    *)
(* good; two certificates share a caster when 2 * Need > N.                *)
(***************************************************************************)

NoRestarts == MaxRestarts = 0

\* 2t+1 votes out of N: any two quorums share a validator.  True of N = 3t+1
\* (and false of N = 2, 3 and 6, which main.go accepts).
QuorumsIntersect == 2 * Need > N

\* A vote carries what its caster had executed then, and books only grow.
VotesArePrefixes ==
  \A h \in Hash : \A x \in votes[h] : IsPrefixOf(x.app, books[x.from])

\* Only a validator that took the proposal has voted for it, and only once.
VotesAreSeen == \A h \in Hash : \A x \in votes[h] : h \in seenPropose[x.from]
OneVoteEach == \A h \in Hash : \A x, y \in votes[h] : x.from = y.from => x = y

\* The leader reads the first Need entries of a pool.
PoolsAreBounded == \A h \in Hash : IsFiniteSet(votes[h]) /\ Cardinality(votes[h]) <= Need

VoteInv == VotesArePrefixes /\ VotesAreSeen /\ OneVoteEach /\ PoolsAreBounded

QuorumInv == TypeInv /\ VoteInv /\ CertsHaveQuorums

-----------------------------------------------------------------------------
(***************************************************************************)
(* Prefixes                                                                *)
(***************************************************************************)

LEMMA PrefixExtends ==
  ASSUME NEW S, NEW s \in Seq(S), NEW t \in Seq(S), NEW x \in S, IsPrefixOf(s, t)
  PROVE  IsPrefixOf(s, Append(t, x))
<1>1. Len(s) \in Nat /\ Len(t) \in Nat /\ Len(Append(t, x)) = Len(t) + 1
  OBVIOUS
<1>2. \A i \in 1..Len(t) : Append(t, x)[i] = t[i]
  OBVIOUS
<1>3. QED
  BY <1>1, <1>2 DEF IsPrefixOf

LEMMA PrefixItself == ASSUME NEW S, NEW s \in Seq(S) PROVE IsPrefixOf(s, s)
BY DEF IsPrefixOf

\* Two prefixes of one sequence are comparable.
LEMMA PrefixesCompare ==
  ASSUME NEW S, NEW r \in Seq(S), NEW s \in Seq(S), NEW t \in Seq(S),
         IsPrefixOf(r, t), IsPrefixOf(s, t)
  PROVE  IsPrefixOf(r, s) \/ IsPrefixOf(s, r)
<1>1. Len(r) \in Nat /\ Len(s) \in Nat /\ Len(t) \in Nat
  OBVIOUS
<1>2. CASE Len(r) <= Len(s)
  BY <1>1, <1>2 DEF IsPrefixOf
<1>3. CASE Len(s) <= Len(r)
  BY <1>1, <1>3 DEF IsPrefixOf
<1>4. QED
  BY <1>1, <1>2, <1>3

-----------------------------------------------------------------------------
(***************************************************************************)
(* Quorums                                                                 *)
(***************************************************************************)

LEMMA NodeFinite == IsFiniteSet(Node) /\ Cardinality(Node) = N
BY NAssumption, FS_Interval DEF Node

LEMMA NeedFacts == Need \in Nat /\ Need > 0
BY NAssumption DEF Need, T

\* The casters of a set of votes, one each, are as many as the votes.
LEMMA Casters ==
  ASSUME NEW V, IsFiniteSet(V), \A x, y \in V : x.from = y.from => x = y
  PROVE  Cardinality({x.from : x \in V}) = Cardinality(V)
<1> DEFINE Q == {x.from : x \in V}
           f == [x \in V |-> x.from]
<1>1. f \in Bijection(V, Q)
  <2>1. f \in [V -> Q]
    OBVIOUS
  <2>2. \A x, y \in V : f[x] = f[y] => x = y
    OBVIOUS
  <2>3. \A q \in Q : \E x \in V : f[x] = q
    OBVIOUS
  <2>4. QED
    BY <2>1, <2>2, <2>3 DEF Bijection, Injection, Surjection, IsInjective
<1>2. ExistsBijection(V, Q)
  BY <1>1 DEF ExistsBijection
<1>3. QED
  BY <1>2, FS_Bijection

\* Votes that stay let the quorums of existing certificates stay.
LEMMA QuorumsStay ==
  ASSUME CertsHaveQuorums, certs' = certs, \A c \in certs : votes[c.h] \subseteq votes'[c.h]
  PROVE  CertsHaveQuorums'
BY DEF CertsHaveQuorums, Need, T, Node

-----------------------------------------------------------------------------
(***************************************************************************)
(* One step                                                                *)
(***************************************************************************)

LEMMA InitQuorum == Init => QuorumInv
<1> SUFFICES ASSUME Init PROVE QuorumInv
  OBVIOUS
<1>1. TypeInv
  BY InitType
<1>2. \A h \in Hash : votes[h] = {}
  BY DEF Init
<1>3. VoteInv
  BY <1>2, FS_EmptySet, NeedFacts
  DEF VoteInv, VotesArePrefixes, VotesAreSeen, OneVoteEach, PoolsAreBounded
<1>4. QED
  BY <1>1, <1>3 DEF QuorumInv, CertsHaveQuorums, Init

\* The leader forms a certificate from exactly Need votes of different casters
\* that agree on AppHash.
LEMMA CollectQuorumStep ==
  ASSUME QuorumInv, NEW n \in Node, CollectQuorum(n) PROVE VoteInv' /\ CertsHaveQuorums'
<1> DEFINE V == votes[Round(n)]
           Q == {x.from : x \in V}
<1>1. Round(n) \in Hash
  BY DEF CollectQuorum, QuorumInv, TypeInv, RoundOK
<1>2. IsFiniteSet(V) /\ Cardinality(V) = Need /\ \A x, y \in V : x.from = y.from => x = y
  <2>1. IsFiniteSet(V) /\ Cardinality(V) <= Need /\ Cardinality(V) >= Need
    BY <1>1 DEF CollectQuorum, QuorumInv, VoteInv, PoolsAreBounded
  <2>2. Cardinality(V) \in Nat
    BY <2>1, FS_CardinalityType
  <2>3. QED
    BY <1>1, <2>1, <2>2, NeedFacts DEF QuorumInv, VoteInv, OneVoteEach
<1>3. Q \in SUBSET Node /\ Cardinality(Q) = Need
  <2>1. V \subseteq Vote
    BY <1>1 DEF QuorumInv, TypeInv, TypeOK
  <2>2. Q \in SUBSET Node
    BY <2>1 DEF Vote
  <2>3. QED
    BY <1>2, <2>2, Casters
<1>4. PICK a \in V : certs' = certs \cup {[h |-> Round(n), app |-> a.app]}
  BY DEF CollectQuorum
<1>5. \A x \in V : x.app = a.app
  BY DEF CollectQuorum, SameAppHash
<1>6. votes' = votes /\ UNCHANGED <<books, seenPropose>>
  BY DEF CollectQuorum
<1>7. VoteInv'
  BY <1>6 DEF QuorumInv, VoteInv, VotesArePrefixes, VotesAreSeen, OneVoteEach, PoolsAreBounded, Need, T
<1>8. CertsHaveQuorums'
  <2>1. SUFFICES ASSUME NEW c \in certs'
                 PROVE  \E P \in SUBSET Node : Cardinality(P) = Need
                          /\ \A m \in P : \E x \in votes[c.h] : x.from = m /\ x.app = c.app
    BY <1>6 DEF CertsHaveQuorums, Need, T, Node
  <2>2. CASE c \in certs
    BY <2>2 DEF QuorumInv, CertsHaveQuorums
  <2>3. CASE c = [h |-> Round(n), app |-> a.app]
    <3>1. \A m \in Q : \E x \in votes[c.h] : x.from = m /\ x.app = c.app
      BY <1>5, <2>3
    <3>2. QED
      BY <1>3, <3>1
  <2>4. QED
    BY <1>4, <2>2, <2>3
<1>9. QED
  BY <1>7, <1>8

\* A validator executes the proposal, then votes with the resulting state.
LEMMA OnProposeStep ==
  ASSUME QuorumInv, NEW n \in Node, NEW h \in Hash, OnPropose(n, h)
  PROVE  VoteInv' /\ CertsHaveQuorums'
<1> DEFINE v == [from |-> n, inc |-> incarnation[n], app |-> AppHash(n, h)]
<1>1. /\ h \notin seenPropose[n]
      /\ seenPropose' = [seenPropose EXCEPT ![n] = @ \cup {h}]
      /\ certs' = certs
      /\ books' = books \/ books' = [books EXCEPT ![n] = Execute(n, h)]
  BY DEF OnPropose
<1>2. votes' = votes
      \/ /\ books' = [books EXCEPT ![n] = Execute(n, h)]
         /\ votes' = [votes EXCEPT ![h] = AddVote(@, v)]
  BY DEF OnPropose
<1>3. Execute(n, h) \in Seq(Hash) /\ \A m \in Node : books[m] \in Seq(Hash)
  BY ExecuteType DEF QuorumInv, TypeInv, TypeOK
<1>4. ASSUME NEW m \in Node, NEW s \in Seq(Hash), IsPrefixOf(s, books[m])
      PROVE  IsPrefixOf(s, books'[m])
  <2>1. IsPrefixOf(s, Execute(m, h))
    BY <1>3, <1>4, PrefixExtends DEF Execute
  <2>2. QED
    BY <1>1, <1>4, <2>1 DEF QuorumInv, TypeInv, TypeOK
<1>5. \A g \in Hash : votes'[g] = votes[g] \/ (g = h /\ votes'[g] = votes[g] \cup {v})
  BY <1>2 DEF AddVote, QuorumInv, TypeInv, TypeOK
<1>6. \A g \in Hash : \A x \in votes[g] : x \in Vote
  BY DEF QuorumInv, TypeInv, TypeOK
<1>7. votes' # votes => books'[n] = v.app
  BY <1>2 DEF AppHash, QuorumInv, TypeInv, TypeOK
<1>8. VotesArePrefixes'
  <2>1. SUFFICES ASSUME NEW g \in Hash, NEW x \in votes'[g] PROVE IsPrefixOf(x.app, books'[x.from])
    BY DEF VotesArePrefixes
  <2>2. CASE x \in votes[g]
    BY <1>4, <1>6, <2>2 DEF Vote, QuorumInv, VoteInv, VotesArePrefixes
  <2>3. CASE x \notin votes[g]
    <3>1. x = v /\ votes' # votes
      BY <1>5, <2>3
    <3>2. books'[n] \in Seq(Hash)
      BY <1>1, <1>3 DEF QuorumInv, TypeInv, TypeOK
    <3>3. QED
      BY <1>7, <3>1, <3>2, PrefixItself
  <2>4. QED
    BY <2>2, <2>3
<1>9. VotesAreSeen'
  <2>1. SUFFICES ASSUME NEW g \in Hash, NEW x \in votes'[g] PROVE g \in seenPropose'[x.from]
    BY DEF VotesAreSeen
  <2>2. \A m \in Node : seenPropose[m] \subseteq seenPropose'[m]
    BY <1>1 DEF QuorumInv, TypeInv, TypeOK
  <2>3. CASE x \in votes[g]
    BY <1>6, <2>2, <2>3 DEF Vote, QuorumInv, VoteInv, VotesAreSeen
  <2>4. CASE x \notin votes[g]
    <3>1. g = h /\ x = v
      BY <1>5, <2>4
    <3>2. QED
      BY <1>1, <3>1 DEF QuorumInv, TypeInv, TypeOK
  <2>5. QED
    BY <2>3, <2>4
<1>10. OneVoteEach'
  <2>1. \A x \in votes[h] : x.from # n
    BY <1>1 DEF QuorumInv, VoteInv, VotesAreSeen
  <2>2. QED
    BY <1>5, <2>1 DEF OneVoteEach, QuorumInv, VoteInv
<1>11. PoolsAreBounded'
  <2>1. IsFiniteSet(votes[h]) /\ Cardinality(votes[h]) <= Need
    BY DEF QuorumInv, VoteInv, PoolsAreBounded
  <2>2. Cardinality(votes[h]) \in Nat
    BY <2>1, FS_CardinalityType
  <2>3. IsFiniteSet(AddVote(votes[h], v)) /\ Cardinality(AddVote(votes[h], v)) <= Need
    <3>1. CASE Cardinality(votes[h]) < Need
      <4>1. AddVote(votes[h], v) = votes[h] \cup {v}
        BY <3>1 DEF AddVote
      <4> HIDE DEF v
      <4>2. /\ IsFiniteSet(votes[h] \cup {v})
            /\ Cardinality(votes[h] \cup {v}) \in {Cardinality(votes[h]), Cardinality(votes[h]) + 1}
        BY <2>1, FS_AddElement
      <4>3. QED
        BY <2>2, <3>1, <4>1, <4>2, NeedFacts
    <3>2. CASE ~(Cardinality(votes[h]) < Need)
      BY <2>1, <3>2 DEF AddVote
    <3>3. QED
      BY <3>1, <3>2
  <2>4. \A g \in Hash : votes'[g] = votes[g] \/ (g = h /\ votes'[g] = AddVote(votes[h], v))
    BY <1>2 DEF QuorumInv, TypeInv, TypeOK
  <2>5. SUFFICES ASSUME NEW g \in Hash PROVE IsFiniteSet(votes'[g]) /\ Cardinality(votes'[g]) <= Need
    BY DEF PoolsAreBounded, Need, T
  <2>6. QED
    BY <2>3, <2>4 DEF QuorumInv, VoteInv, PoolsAreBounded
<1>12. CertsHaveQuorums'
  <2>1. \A c \in certs : c.h \in Hash
    BY DEF QuorumInv, TypeInv, TypeOK, Certificate
  <2>2. QED
    BY <1>1, <1>5, <2>1, QuorumsStay DEF QuorumInv
<1>13. QED
  BY <1>8, <1>9, <1>10, <1>11, <1>12 DEF VoteInv

LEMMA OtherStep ==
  ASSUME QuorumInv, UNCHANGED <<votes, certs, seenPropose, books>>
  PROVE  VoteInv' /\ CertsHaveQuorums'
<1>1. VoteInv'
  BY DEF QuorumInv, VoteInv, VotesArePrefixes, VotesAreSeen, OneVoteEach, PoolsAreBounded, Need, T
<1>2. CertsHaveQuorums'
  BY QuorumsStay DEF QuorumInv
<1>3. QED
  BY <1>1, <1>2

LEMMA NextQuorum == ASSUME NoRestarts PROVE QuorumInv /\ [Next]_vars => QuorumInv'
<1> SUFFICES ASSUME QuorumInv, [Next]_vars PROVE QuorumInv'
  OBVIOUS
<1>1. TypeInv'
  BY NextType DEF QuorumInv
<1>2. ASSUME NEW n \in Node, Run(n) PROVE VoteInv' /\ CertsHaveQuorums'
  <2>1. CASE CollectQuorum(n)
    BY <2>1, CollectQuorumStep
  <2>2. CASE StartRound(n) \/ CollectMismatch(n) \/ CollectTimeout(n)
    BY <2>2, OtherStep DEF StartRound, CollectMismatch, CollectTimeout, network, state
  <2>3. CASE FinishRound(n) \/ WaitTimeout(n) \/ ReceiveAdvance(n)
    BY <2>3, OtherStep DEF FinishRound, WaitTimeout, ReceiveAdvance, network, control
  <2>4. QED
    BY <1>2, <2>1, <2>2, <2>3 DEF Run
<1>3. ASSUME NEW n \in Node, HandlePropose(n) PROVE VoteInv' /\ CertsHaveQuorums'
  BY <1>3, OnProposeStep DEF HandlePropose
<1>4. ASSUME NEW n \in Node, HandlePrepare(n) PROVE VoteInv' /\ CertsHaveQuorums'
  BY <1>4, OtherStep 
  DEF HandlePrepare, OnPrepare, TryCommit, SkipCommit, UpdateHighCert, UpdateLocked, Commit, network, state
<1>5. ASSUME NEW n \in Node PROVE ~Restart(n)
  <2>1. incarnation[n] \in Nat /\ ~(incarnation[n] < 0)
    BY DEF QuorumInv, TypeInv, TypeOK, NoRestarts
  <2>2. QED
    BY <2>1 DEF Restart, NoRestarts
<1>6. ASSUME UNCHANGED vars PROVE VoteInv' /\ CertsHaveQuorums'
  BY <1>6, OtherStep DEF vars
<1>7. VoteInv' /\ CertsHaveQuorums'
  BY <1>2, <1>3, <1>4, <1>5, <1>6 DEF Next
<1>8. QED
  BY <1>1, <1>7 DEF QuorumInv

LEMMA QuorumInvariant == ASSUME NoRestarts PROVE Spec => []QuorumInv
<1>1. QuorumInv /\ [Next]_vars => QuorumInv'
  BY NextQuorum
<1>2. QED
  BY <1>1, InitQuorum, PTL DEF Spec

-----------------------------------------------------------------------------
(***************************************************************************)
(* Theorems                                                                *)
(***************************************************************************)

\* A certificate stands for 2t+1 different validators that executed its block
\* and reached the state it names (leaderRound, CollectVotes, onPropose).  No
\* process restarts: one that does votes a second time (the violation run
\* double_vote), as neither CanVote nor the pool looks for a vote already cast.
THEOREM CertificatesAreQuorums == NoRestarts => (Spec => []CertsHaveQuorums)
<1> SUFFICES ASSUME NoRestarts PROVE Spec => []CertsHaveQuorums
  OBVIOUS
<1>1. Spec => []QuorumInv
  BY QuorumInvariant
<1>2. QuorumInv => CertsHaveQuorums
  BY DEF QuorumInv
<1>3. QED
  BY <1>1, <1>2, PTL

LEMMA QuorumInvImpliesLinear ==
  ASSUME QuorumsIntersect, QuorumInv PROVE CertifiedStatesLinear
<1> SUFFICES ASSUME NEW c \in certs, NEW d \in certs
             PROVE  IsPrefixOf(c.app, d.app) \/ IsPrefixOf(d.app, c.app)
  BY DEF CertifiedStatesLinear
<1>1. PICK P \in SUBSET Node :
        Cardinality(P) = Need /\ \A n \in P : \E x \in votes[c.h] : x.from = n /\ x.app = c.app
  BY DEF QuorumInv, CertsHaveQuorums
<1>2. PICK Q \in SUBSET Node :
        Cardinality(Q) = Need /\ \A n \in Q : \E x \in votes[d.h] : x.from = n /\ x.app = d.app
  BY DEF QuorumInv, CertsHaveQuorums
<1>3. Cardinality(P) + Cardinality(Q) > Cardinality(Node)
  BY <1>1, <1>2, NodeFinite, NeedFacts DEF QuorumsIntersect
<1>4. PICK n \in Node : n \in P /\ n \in Q
  <2>1. P \cap Q # {}
    BY <1>3, NodeFinite, FS_MajoritiesIntersect
  <2>2. QED
    BY <2>1
<1>5. c.h \in Hash /\ c.app \in Seq(Hash) /\ d.h \in Hash /\ d.app \in Seq(Hash) /\ books[n] \in Seq(Hash)
  BY DEF QuorumInv, TypeInv, TypeOK, Certificate
<1>6. IsPrefixOf(c.app, books[n])
  BY <1>1, <1>4, <1>5 DEF QuorumInv, VoteInv, VotesArePrefixes
<1>7. IsPrefixOf(d.app, books[n])
  BY <1>2, <1>4, <1>5 DEF QuorumInv, VoteInv, VotesArePrefixes
<1>8. QED
  BY <1>5, <1>6, <1>7, PrefixesCompare

\* Certified application states lie on one line of execution, for every number
\* of validators whose quorums intersect: there is no certified fork of the
\* order books, although blocks are executed before they are certified.
THEOREM CertifiedStatesAgree ==
  NoRestarts /\ QuorumsIntersect => (Spec => []CertifiedStatesLinear)
<1> SUFFICES ASSUME NoRestarts, QuorumsIntersect PROVE Spec => []CertifiedStatesLinear
  OBVIOUS
<1>1. Spec => []QuorumInv
  BY QuorumInvariant
<1>2. QuorumInv => CertifiedStatesLinear
  BY QuorumInvImpliesLinear
<1>3. QED
  BY <1>1, <1>2, PTL

=============================================================================
