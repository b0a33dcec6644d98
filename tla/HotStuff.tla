------------------------------ MODULE HotStuff ------------------------------
(***************************************************************************)
(* The two-chain HotStuff engine of pkg/consensus (engine.go, safety.go,   *)
(* pacemaker.go, leader.go) over the network of pkg/p2p (libp2pnet.go) and *)
(* the in-memory block store of pkg/storage (blockstore.go).               *)
(*                                                                         *)
(* A validator is one process with three goroutines that matter here:      *)
(*   - Run            leads its own views and waits in the others;         *)
(*   - handlePropose  calls onPropose for one proposal after another;      *)
(*   - handlePrepare  calls onPrepare for one certificate after another.   *)
(* They share State (Height, View, Locked, HighCert) and the block store.  *)
(* Every validator follows the code: there is no Byzantine step.           *)
(*                                                                         *)
(* Abstractions.  HashOfBlock is collision free, so a block is named by    *)
(* the view it was proposed in and the incarnation of its proposer (a      *)
(* leader proposes once per view and run of its process).  AppHash is the  *)
(* sequence of payload-carrying blocks the application has executed: two   *)
(* votes for one block agree exactly when their validators executed the    *)
(* same blocks in the same order.  (computeStateHash also hashes the       *)
(* block's height and time, which votes for one block share.)  Signatures  *)
(* are not modelled.                                                       *)
(***************************************************************************)
EXTENDS Integers, Sequences, FiniteSets

CONSTANTS
  N,            \* number of validators: len(ids) in cmd/node/main.go
  MaxView,      \* bound: the last view a run of the model enters
  MaxRestarts,  \* bound: restarts of each validator's process
  ChanCap,      \* capacity of viewAdvanceCh (10 in pacemaker.go)
  Payloads      \* may a proposal carry transactions? a subset of BOOLEAN

ASSUME NAssumption == N \in Nat \ {0}
ASSUME BoundsAssumption ==
  MaxView \in Nat /\ MaxRestarts \in Nat /\ ChanCap \in Nat
ASSUME PayloadsAssumption == Payloads \subseteq BOOLEAN

(***************************************************************************)
(* Validators are named by their position in cfg.Consensus.Validators.     *)
(***************************************************************************)
Node == 1..N

\* main.go: t = (n-1)/3, and leaderRound needs 2t+1 votes.
T_quarter == (N - 1) \div 4   \* mutant of T
T    == (N - 1) \div 3
Need == 2 * T + 1

LeaderOf(v) == ((v - 1) % N) + 1

View    == 1..MaxView
Hash    == View \X (0..MaxRestarts)
Genesis == <<0, 0>>
ViewOf(h) == h[1]

\* A Certificate commits to a block and to the state after executing it.
\* NoCert stands for a nil pointer and for the genesis certificate that
\* HighestCert returns in its place: both have view 0, and the code treats
\* them alike wherever it compares views.
Certificate == [h : Hash, app : Seq(Hash)]
NoCert      == [h |-> Genesis, app |-> <<>>]
CertOrNil   == Certificate \cup {NoCert}

\* A Block with the HighCert.View of the Propose message that carried it.
Block   == [height : Nat, parent : Hash \cup {Genesis},
            payload : BOOLEAN, high : 0..MaxView]
NoBlock == [height |-> 0, parent |-> Genesis, payload |-> FALSE, high |-> 0]

Vote == [from : Node, inc : 0..MaxRestarts, app : Seq(Hash)]

VARIABLES
  \* --- the network: what has been broadcast or delivered to a vote pool
  block,         \* block[h]: the proposal published under hash h, or NoBlock
  votes,         \* votes[h]: votes for h that reached the leader's pool
  certs,         \* certificates published on the prepare topic
  seenPropose,   \* seenPropose[n]: proposals handlePropose has taken
  seenPrepare,   \* seenPrepare[n]: certificates handlePrepare has taken
  \* --- State and BlockStore of each validator
  view,          \* State.View
  highCert,      \* State.HighCert
  locked,        \* State.Locked (its certificate)
  stored,        \* blocks SaveBlock has put in the store
  certByView,    \* certificates SaveCert has put in the store
  committed,     \* blocks passed to SetCommitted, in order; State.Height is
                 \* its length, the store keeps its last element
  books,         \* the application: payload blocks executed, in order
  \* --- control state of the goroutines
  pc,            \* where Run is
  preparing,     \* the certificate handlePrepare is working on, or NoCert
  committing,    \* prevCert of the commit it has begun for it, or NoCert
  lockHalfSet,   \* it is in UpdateLock, between the writes of HighCert and Locked
  viewAdvanceCh, \* the Pacemaker's channel
  incarnation    \* how often the process has been restarted

network == <<block, votes, certs, seenPropose, seenPrepare>>
state   == <<view, highCert, locked, stored, certByView, committed, books>>
control == <<pc, preparing, committing, lockHalfSet, viewAdvanceCh, incarnation>>
vars    == <<block, votes, certs, seenPropose, seenPrepare,
             view, highCert, locked, stored, certByView, committed, books,
             pc, preparing, committing, lockHalfSet, viewAdvanceCh, incarnation>>

commit  == <<committing, lockHalfSet>>

\* loop:     at the head of Run's for loop, or waiting in WaitForViewAdvance
\* collect:  in leaderRound, waiting in CollectVotes
\* observe:  in leaderRound, the prepare is published, HighCert is not updated
\* timedOut, mismatch: leaderRound returned an error and main called Fatalw
PC   == {"loop", "collect", "observe", "timedOut", "mismatch"}
Dead == {"timedOut", "mismatch"}

Height(n)  == Len(committed[n])
Running(n) == pc[n] \notin Dead
Proposed(h) == block[h].height > 0

Round_currentView(n) == <<view[n], incarnation[n]>>   \* mutant: v is not View + 1

\* The block Run is leading: view v = State.View + 1 of this incarnation, whose
\* Time sets it apart from a block another incarnation made for v.
Round(n) == <<view[n] + 1, incarnation[n]>>

-----------------------------------------------------------------------------
Init ==
  /\ block         = [h \in Hash |-> NoBlock]
  /\ votes         = [h \in Hash |-> {}]
  /\ certs         = {}
  /\ seenPropose   = [n \in Node |-> {}]
  /\ seenPrepare   = [n \in Node |-> {}]
  /\ view          = [n \in Node |-> 0]
  /\ highCert      = [n \in Node |-> NoCert]
  /\ locked        = [n \in Node |-> NoCert]
  /\ stored        = [n \in Node |-> {}]
  /\ certByView    = [n \in Node |-> [v \in View |-> NoCert]]
  /\ committed     = [n \in Node |-> <<>>]
  /\ books         = [n \in Node |-> <<>>]
  /\ pc            = [n \in Node |-> "loop"]
  /\ preparing     = [n \in Node |-> NoCert]
  /\ committing    = [n \in Node |-> NoCert]
  /\ lockHalfSet   = [n \in Node |-> FALSE]
  /\ viewAdvanceCh = [n \in Node |-> <<>>]
  /\ incarnation   = [n \in Node |-> 0]

-----------------------------------------------------------------------------
(***************************************************************************)
(* Run as leader (leaderRound, Leader.Propose, CollectVotes).              *)
(***************************************************************************)

\* Propose: read State.Height and then HighCert, publish the block, store it.
\* The block may be taken by handlers before SaveBlock runs; nothing reads
\* the store for it before its certificate exists.  Nothing reads a block's
\* height either, so that all of this is one step.  The mutex is not held.
StartRound(n) ==
  /\ pc[n] = "loop"
  /\ view[n] < MaxView
  /\ LeaderOf(view[n] + 1) = n
  /\ \E p \in Payloads :
       block' = [block EXCEPT ![Round(n)] =
                   [height |-> Height(n) + 1, parent |-> highCert[n].h,
                    payload |-> p, high |-> ViewOf(highCert[n].h)]]
  /\ stored' = [stored EXCEPT ![n] = @ \cup {Round(n)}]
  /\ pc' = [pc EXCEPT ![n] = "collect"]
  /\ UNCHANGED <<votes, certs, seenPropose, seenPrepare, view, highCert, locked,
                 certByView, committed, books, preparing, commit, viewAdvanceCh, incarnation>>

SameAppHash_unchecked(vs) == TRUE   \* mutant: votes[0].AppHash is taken for all
SameAppHash(vs) == \A a, b \in vs : a.app = b.app

\* CollectVotes returned Need votes with one AppHash: form the certificate,
\* store it, publish the prepare.
CollectQuorum(n) ==
  /\ pc[n] = "collect"
  /\ Cardinality(votes[Round(n)]) >= Need
  /\ SameAppHash(votes[Round(n)])
  /\ \E a \in votes[Round(n)] :
       LET cert == [h |-> Round(n), app |-> a.app] IN
         /\ certs' = certs \cup {cert}
         /\ certByView' = [certByView EXCEPT ![n][ViewOf(cert.h)] = cert]
  /\ pc' = [pc EXCEPT ![n] = "observe"]
  /\ UNCHANGED <<block, votes, seenPropose, seenPrepare, view, highCert, locked,
                 stored, committed, books, preparing, commit, viewAdvanceCh, incarnation>>

\* CollectVotes returned Need votes that disagree on AppHash: Run returns an
\* error and the process exits.
CollectMismatch(n) ==
  /\ pc[n] = "collect"
  /\ Cardinality(votes[Round(n)]) >= Need
  /\ ~SameAppHash(votes[Round(n)])
  /\ pc' = [pc EXCEPT ![n] = "mismatch"]
  /\ UNCHANGED <<network, state, preparing, commit, viewAdvanceCh, incarnation>>


\* The three-second deadline fires first: Run returns an error as well.
CollectTimeout(n) ==
  /\ pc[n] = "collect"
  /\ Cardinality(votes[Round(n)]) < Need
  /\ pc' = [pc EXCEPT ![n] = "timedOut"]
  /\ UNCHANGED <<network, state, preparing, commit, viewAdvanceCh, incarnation>>

Newer_any(c, d) == c   \* mutant: HighCert takes every certificate

\* Safety.OnPrepare: HighCert only moves to a later view.
Newer(c, d) == IF ViewOf(c.h) > ViewOf(d.h) THEN c ELSE d

\* The rest of leaderRound and Run: Safety.OnPrepare, which takes the mutex that
\* UpdateLock holds, then State.View = v.
FinishRound(n) ==
  /\ pc[n] = "observe"
  /\ ~lockHalfSet[n]
  /\ \E cert \in certs :
       /\ cert.h = Round(n)
       /\ highCert' = [highCert EXCEPT ![n] = Newer(cert, @)]
  /\ view' = [view EXCEPT ![n] = @ + 1]
  /\ pc' = [pc EXCEPT ![n] = "loop"]
  /\ UNCHANGED <<network, locked, stored, certByView, committed, books,
                 preparing, commit, viewAdvanceCh, incarnation>>

-----------------------------------------------------------------------------
(***************************************************************************)
(* Run as follower (WaitForViewAdvance).                                   *)
(***************************************************************************)
Waiting(n) ==
  /\ pc[n] = "loop"
  /\ view[n] < MaxView
  /\ LeaderOf(view[n] + 1) # n

\* The deadline Ppc + Delta: the view is entered without any certificate.
WaitTimeout(n) ==
  /\ Waiting(n)
  /\ view' = [view EXCEPT ![n] = @ + 1]
  /\ UNCHANGED <<network, highCert, locked, stored, certByView, committed, books, control>>

\* The next view to enter once v has been received while waiting for target.
Advance(current, v) == IF v >= current + 1 THEN v ELSE current

\* A view arrives on the channel: an older one is dropped, and the wait for
\* the same target goes on.
ReceiveAdvance(n) ==
  /\ Waiting(n)
  /\ viewAdvanceCh[n] # <<>>
  /\ view' = [view EXCEPT ![n] = Advance(@, Head(viewAdvanceCh[n]))]
  /\ viewAdvanceCh' = [viewAdvanceCh EXCEPT ![n] = Tail(@)]
  /\ UNCHANGED <<network, highCert, locked, stored, certByView, committed, books,
                 pc, preparing, commit, incarnation>>

-----------------------------------------------------------------------------
(***************************************************************************)
(* handlePropose (onPropose).                                              *)
(***************************************************************************)

\* Safety.CanVote.  A nil Locked is NoCert here, whose view is 0.
CanVote(n, b) == b.high >= ViewOf(locked[n].h)

\* App.OnCommit: the order books after the block's transactions.
Execute(n, h) == IF block[h].payload THEN Append(books[n], h) ELSE books[n]

AppHash_before(n, h) == books[n]   \* mutant: hash taken before execution

\* The AppHash OnCommit returns and the vote carries.
AppHash(n, h) == Execute(n, h)

\* What the leader's pool holds once vote x is appended.  CollectVotes hands
\* out the first Need entries, so later ones are never read.
AddVote(pool, x) == IF Cardinality(pool) < Need THEN pool \cup {x} ELSE pool

\* One proposal, delivered at most once by pubsub: store it, and if the lock
\* allows execute it and vote.  SendVote reaches the leader when the leader is
\* the validator itself; otherwise the vote goes to an arbitrary connected
\* peer, and one that is not the leader never reads it (delivered = FALSE,
\* which also stands for a stream error: the engine ignores both).
OnPropose(n, h) ==
  /\ Running(n)
  /\ Proposed(h)
  /\ h \notin seenPropose[n]
  /\ seenPropose' = [seenPropose EXCEPT ![n] = @ \cup {h}]
  /\ stored' = [stored EXCEPT ![n] = @ \cup {h}]
  /\ \/ /\ ~CanVote(n, block[h])
        /\ UNCHANGED <<books, votes>>
     \/ /\ CanVote(n, block[h])
        /\ books' = [books EXCEPT ![n] = Execute(n, h)]
        /\ \E delivered \in BOOLEAN :
             /\ n = LeaderOf(ViewOf(h)) => delivered
             /\ votes' = IF delivered
                         THEN [votes EXCEPT ![h] = AddVote(@,
                                 [from |-> n, inc |-> incarnation[n], app |-> AppHash(n, h)])]
                         ELSE votes
  /\ UNCHANGED <<block, certs, seenPrepare, view, highCert, locked, certByView,
                 committed, control>>

-----------------------------------------------------------------------------
(***************************************************************************)
(* handlePrepare (onPrepare): first what wakes Run, then the commit, in     *)
(* which the other goroutines read each field as it is written.            *)
(***************************************************************************)

\* SignalViewAdvance: dropped when the channel is full.
Signal(ch, v) == IF Len(ch) < ChanCap THEN Append(ch, v) ELSE ch

\* SaveCert, Safety.OnPrepare, SignalViewAdvance.  The prepare never carries a
\* block: prepByV has no entry for a view whose prepare is only being sent.
OnPrepare(n, c) ==
  /\ Running(n)
  /\ preparing[n] = NoCert
  /\ c \notin seenPrepare[n]
  /\ seenPrepare' = [seenPrepare EXCEPT ![n] = @ \cup {c}]
  /\ certByView' = [certByView EXCEPT ![n][ViewOf(c.h)] = c]
  /\ highCert' = [highCert EXCEPT ![n] = Newer(c, @)]
  /\ viewAdvanceCh' = [viewAdvanceCh EXCEPT ![n] = Signal(@, ViewOf(c.h))]
  /\ preparing' = [preparing EXCEPT ![n] = c]
  /\ UNCHANGED <<block, votes, certs, seenPropose, view, locked, stored, committed,
                 books, pc, commit, incarnation>>

\* mutant: the certificate of the parent, whatever its view
PrevCert_parent(n, c) ==
  IF block[c.h].parent = Genesis THEN NoCert ELSE certByView[n][ViewOf(block[c.h].parent)]

\* The certificate GetCert returns for the view before c's.
PrevCert(n, c) == IF ViewOf(c.h) > 1 THEN certByView[n][ViewOf(c.h) - 1] ELSE NoCert

\* mutant: the parent link is not compared
CommitReady_anyParent(n, c) ==
  LET prev == PrevCert(n, c) IN
    prev # NoCert /\ c.h \in stored[n] /\ prev.h \in stored[n]

\* The two-chain rule on what this validator has stored.
CommitReady(n, c) ==
  LET prev == PrevCert(n, c) IN
    /\ prev # NoCert
    /\ c.h \in stored[n]
    /\ block[c.h].parent = prev.h
    /\ prev.h \in stored[n]

\* The certificate commits nothing: an early return.
SkipCommit(n) ==
  /\ Running(n)
  /\ preparing[n] # NoCert /\ committing[n] = NoCert
  /\ ~CommitReady(n, preparing[n])
  /\ preparing' = [preparing EXCEPT ![n] = NoCert]
  /\ UNCHANGED <<network, state, pc, commit, viewAdvanceCh, incarnation>>

\* UpdateLock, holding the mutex, sets HighCert and then Locked: HighestCert
\* and CanVote, which do not take it, may read the one without the other.
UpdateHighCert(n) ==
  /\ Running(n)
  /\ preparing[n] # NoCert /\ committing[n] = NoCert
  /\ CommitReady(n, preparing[n])
  /\ LET prev == PrevCert(n, preparing[n]) IN
       /\ highCert' = [highCert EXCEPT ![n] = prev]
       /\ committing' = [committing EXCEPT ![n] = prev]
  /\ lockHalfSet' = [lockHalfSet EXCEPT ![n] = TRUE]
  /\ UNCHANGED <<network, view, locked, stored, certByView, committed, books,
                 pc, preparing, viewAdvanceCh, incarnation>>

UpdateLocked(n) ==
  /\ Running(n)
  /\ lockHalfSet[n]
  /\ locked' = [locked EXCEPT ![n] = committing[n]]
  /\ lockHalfSet' = [lockHalfSet EXCEPT ![n] = FALSE]
  /\ UNCHANGED <<network, view, highCert, stored, certByView, committed, books,
                 pc, preparing, committing, viewAdvanceCh, incarnation>>

\* Height++, SetCommitted, and the end of onPrepare.
Commit(n) ==
  /\ Running(n)
  /\ committing[n] # NoCert /\ ~lockHalfSet[n]
  /\ committed' = [committed EXCEPT ![n] = Append(@, committing[n].h)]
  /\ committing' = [committing EXCEPT ![n] = NoCert]
  /\ preparing' = [preparing EXCEPT ![n] = NoCert]
  /\ UNCHANGED <<network, view, highCert, locked, stored, certByView, books,
                 pc, lockHalfSet, viewAdvanceCh, incarnation>>

\* The rest of onPrepare.
TryCommit(n) == SkipCommit(n) \/ UpdateHighCert(n) \/ UpdateLocked(n) \/ Commit(n)

-----------------------------------------------------------------------------
\* The process is started again (after Fatalw or a crash).  main builds a new
\* State, an in-memory store and an application; nothing is read back.  Peers
\* may hand the new process messages its predecessor had seen; without peers
\* what was published before is gone.
Restart(n) ==
  /\ incarnation[n] < MaxRestarts
  /\ incarnation' = [incarnation EXCEPT ![n] = @ + 1]
  /\ view' = [view EXCEPT ![n] = 0]
  /\ highCert' = [highCert EXCEPT ![n] = NoCert]
  /\ locked' = [locked EXCEPT ![n] = NoCert]
  /\ stored' = [stored EXCEPT ![n] = {}]
  /\ certByView' = [certByView EXCEPT ![n] = [v \in View |-> NoCert]]
  /\ committed' = [committed EXCEPT ![n] = <<>>]
  /\ books' = [books EXCEPT ![n] = <<>>]
  /\ pc' = [pc EXCEPT ![n] = "loop"]
  /\ preparing' = [preparing EXCEPT ![n] = NoCert]
  /\ committing' = [committing EXCEPT ![n] = NoCert]
  /\ lockHalfSet' = [lockHalfSet EXCEPT ![n] = FALSE]
  /\ viewAdvanceCh' = [viewAdvanceCh EXCEPT ![n] = <<>>]
  /\ seenPropose' = [seenPropose EXCEPT ![n] = IF N = 1 THEN {h \in Hash : Proposed(h)} ELSE {}]
  /\ seenPrepare' = [seenPrepare EXCEPT ![n] = IF N = 1 THEN certs ELSE {}]
  /\ UNCHANGED <<block, votes, certs>>

Run(n) ==
  \/ StartRound(n) \/ CollectQuorum(n) \/ CollectMismatch(n) \/ CollectTimeout(n)
  \/ FinishRound(n) \/ WaitTimeout(n) \/ ReceiveAdvance(n)

HandlePropose(n) == \E h \in Hash : OnPropose(n, h)
HandlePrepare(n) == (\E c \in certs : OnPrepare(n, c)) \/ TryCommit(n)

Next == \E n \in Node : Run(n) \/ HandlePropose(n) \/ HandlePrepare(n) \/ Restart(n)

Spec == Init /\ [][Next]_vars

\* The Go scheduler runs a goroutine that can run, and the clock moves on, so
\* that deadlines fire.  Nothing is assumed of the network.
Fairness == \A n \in Node : WF_vars(Run(n)) /\ WF_vars(TryCommit(n))

FairSpec == Spec /\ Fairness

-----------------------------------------------------------------------------
(***************************************************************************)
(* Properties                                                              *)
(***************************************************************************)

\* Every variable holds values of its type.
TypeOK ==
  /\ block \in [Hash -> Block]
  /\ votes \in [Hash -> SUBSET Vote]
  /\ certs \subseteq Certificate
  /\ seenPropose \in [Node -> SUBSET Hash]
  /\ seenPrepare \in [Node -> SUBSET Certificate]
  /\ view \in [Node -> 0..MaxView]
  /\ highCert \in [Node -> CertOrNil]
  /\ locked \in [Node -> CertOrNil]
  /\ stored \in [Node -> SUBSET Hash]
  /\ certByView \in [Node -> [View -> CertOrNil]]
  /\ committed \in [Node -> Seq(Hash)]
  /\ books \in [Node -> Seq(Hash)]
  /\ pc \in [Node -> PC]
  /\ preparing \in [Node -> CertOrNil]
  /\ committing \in [Node -> CertOrNil]
  /\ lockHalfSet \in [Node -> BOOLEAN]
  /\ viewAdvanceCh \in [Node -> Seq(View)]
  /\ incarnation \in [Node -> 0..MaxRestarts]

Certified(h) == \E c \in certs : c.h = h

\* A certificate stands for 2t+1 different validators that executed the block
\* and reached the state it names.  (The pool counts entries and never looks
\* at Vote.From; what keeps the entries distinct is that a validator votes
\* once per proposal.)
CertsHaveQuorums ==
  \A c \in certs : \E Q \in SUBSET Node :
    /\ Cardinality(Q) = Need
    /\ \A n \in Q : \E x \in votes[c.h] : x.from = n /\ x.app = c.app

IsPrefixOf(s, t) == Len(s) <= Len(t) /\ \A i \in 1..Len(s) : s[i] = t[i]

\* Certified application states lie on one line of execution: of any two, one
\* extends the other, whatever was lost, delayed or skipped in between.
CertifiedStatesLinear ==
  \A c, d \in certs : IsPrefixOf(c.app, d.app) \/ IsPrefixOf(d.app, c.app)

\* The AppHash of a certificate is the state after executing its own block,
\* and not the state the voters were in before.
CertNamesResult ==
  \A c \in certs : block[c.h].payload => c.app # <<>> /\ c.app[Len(c.app)] = c.h

\* Whatever a validator commits is certified, and so is a block of the next
\* view whose parent it is.
CommitsAreTwoChains ==
  \A n \in Node : \A i \in 1..Len(committed[n]) :
    LET h == committed[n][i] IN
      /\ Certified(h)
      /\ \E c \in certs : ViewOf(c.h) = ViewOf(h) + 1 /\ block[c.h].parent = h

\* No block is committed twice by one validator.
CommitsAreDistinct ==
  \A n \in Node : \A i, j \in 1..Len(committed[n]) :
    committed[n][i] = committed[n][j] => i = j

\* When no commit is under way the lock is the block committed last, and but for
\* the moment between the two writes of UpdateLock HighCert is never older than
\* the lock: whatever Run reads at another time passes the validator's own lock.
LockFollowsCommits ==
  \A n \in Node :
    /\ committing[n] = NoCert =>
         locked[n].h = (IF committed[n] = <<>> THEN Genesis ELSE committed[n][Height(n)])
    /\ ~lockHalfSet[n] => ViewOf(highCert[n].h) >= ViewOf(locked[n].h)


-----------------------------------------------------------------------------
(***************************************************************************)
(* What the documents promise of the engine (see the violation runs).      *)
(***************************************************************************)

\* h and the blocks it descends from.
Chain(h) ==
  LET up[k \in 0..MaxView] ==
        IF k = 0 THEN {h}
        ELSE up[k - 1] \cup {block[g].parent : g \in up[k - 1] \ {Genesis}}
  IN up[MaxView]

Conflict(g, h) == g \notin Chain(h) /\ h \notin Chain(g)

\* README.md:113 of pkg/consensus: the voting rules "prevent conflicting
\* commits".  No two committed blocks, of one validator or of two, are on
\* different branches.
NoConflictingCommits ==
  \A m, n \in Node : \A i \in 1..Height(m), j \in 1..Height(n) :
    ~Conflict(committed[m][i], committed[n][j])

\* engine.go:283: disagreement on AppHash among the votes "detects Byzantine
\* validators with divergent state".  All validators here are honest, so no
\* leader should ever see it.
NoMismatchAmongHonest == \A n \in Node : pc[n] # "mismatch"

=============================================================================
