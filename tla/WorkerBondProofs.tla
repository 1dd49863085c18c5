-------------------------- MODULE WorkerBondProofs --------------------------
(***************************************************************************)
(* The unstake-lock of WorkerBond, for any number of keys, wallets and     *)
(* chunks.                                                                 *)
(*                                                                         *)
(* What makes LockHolds inductive: a submission and its result stand on    *)
(* the bond of the key's staker (Named); a chunk that no submission came   *)
(* to too late mirrors its one result (Tracked); while a withdrawal is     *)
(* between its count and the chain, such a chunk on that bond was leased   *)
(* since the count or was excused by it (Counted); and a result that has   *)
(* passed the gate but is not yet written is covered like a written one    *)
(* (Passed).                                                               *)
(***************************************************************************)
EXTENDS WorkerBond, Sums

BondStates  == {"none", "active", "slashed", "withdrawn"}
ChunkStates == {"pending", "leased", "submitted", "verifying", "accepted"}
RequestType == [at : {"idle", "lease", "grant", "submit", "insert"},
                wallet : Wallets \cup {NoWallet}, chunk : Chunks \cup {NoChunk}]
ChunkType   == [state : ChunkStates, by : Keys \cup {NoKey}]
ResultType  == [at : {"none", "submitted", "verifying", "slash"}, key : Keys \cup {NoKey},
                chunk : Chunks \cup {NoChunk}, bond : Wallets \cup {NoWallet}]

TypeOK ==
    /\ stake \in [Wallets -> [amount : Nat, state : BondStates, at : Nat]] /\ slot \in Nat
    /\ payout \in [Keys -> Wallets \cup {NoWallet}]
    /\ request \in [Keys -> RequestType]
    /\ chunk \in [Chunks -> ChunkType] /\ result \in [Results -> ResultType]
    /\ unstaking \in [Wallets -> BOOLEAN]
    /\ earned \in [Keys -> Nat]
    /\ since \in [Wallets -> SUBSET Chunks] /\ excused \subseteq Chunks /\ overtaken \subseteq Chunks
    /\ moved \in BOOLEAN /\ claimants \in [Keys -> SUBSET Wallets]

\* A submission under way and a result belong to a key and a chunk, and stand on
\* the bond of the key's staker, unless that has changed under the result.
Named ==
    /\ \A k \in Keys : request[k].at # "idle" => request[k].wallet \in Wallets
    /\ \A k \in Keys : request[k].at \in {"submit", "insert"} =>
           request[k].chunk \in Chunks /\ request[k].wallet = Staker(k)
    /\ \A r \in Results : result[r].at # "none" => result[r].key \in Keys /\ result[r].chunk \in Chunks
    /\ \A r \in Results : InVerification(r) => result[r].bond \in Wallets
    /\ ~moved => \A r \in Results : InVerification(r) => result[r].bond = Staker(result[r].key)

On(r, c) == InVerification(r) /\ result[r].chunk = c

\* A chunk that no submission came to too late has a result in verification when
\* it says so, that one only, and agrees with it.
Tracked ==
    \A c \in Chunks : c \notin overtaken =>
        /\ chunk[c].state \in {"submitted", "verifying"} => \E r \in Results : On(r, c)
        /\ \A r \in Results : On(r, c) => result[r].at = chunk[c].state /\ result[r].key = chunk[c].by
        /\ \A r, q \in Results : On(r, c) /\ On(q, c) => r = q

Busy(c) == chunk[c].state \in {"leased", "submitted", "verifying"} /\ chunk[c].by \in Keys

\* Under a withdrawal that was counted, work is newer than the count or excused.
Counted ==
    ~moved => \A w \in Wallets, c \in Chunks :
        unstaking[w] /\ Busy(c) /\ Staker(chunk[c].by) = w => c \in since[w] \cup excused \cup overtaken

\* A result that has passed the gate when its bond is withdrawn is excused too.
Passed ==
    ~moved => \A k \in Keys :
        LET c == request[k].chunk
        IN  /\ request[k].at = "insert" /\ chunk[c] = [state |-> "leased", by |-> k]
            /\ stake[request[k].wallet].state = "withdrawn"
            => c \in excused \cup overtaken

IInv == TypeOK /\ Named /\ Tracked /\ Counted /\ Passed /\ LockHolds

\* The staker of a key is a wallet.
LEMMA StakerIn == ASSUME TypeOK, NEW k \in Keys PROVE Staker(k) \in Wallets
BY BondAssumption DEF TypeOK, Staker

\* Nobody has called, nothing is leased.
LEMMA IInvInit == Init => IInv
<1> SUFFICES ASSUME Init PROVE IInv
  OBVIOUS
<1> USE DEF Init, NoBond, NoRequest, NoResult, Free
<1>1. TypeOK
  BY DEF TypeOK, BondStates, ChunkStates, RequestType, ChunkType, ResultType
<1>2. Named /\ Tracked
  BY DEF Named, Tracked, On, InVerification
<1>3. Counted /\ Passed /\ LockHolds
  BY DEF Counted, Passed, LockHolds, Busy, InVerification
<1> QED
  BY <1>1, <1>2, <1>3 DEF IInv

\* Keys call: the chunks, the bonds and the counts stay, and a key with work keeps
\* its wallet unless that is recorded.
LEMMA CallsKeep ==
  ASSUME IInv, NEW k \in Keys, LeaseUser(k) \/ LeaseGate(k)
  PROVE  IInv'
<1> USE DEF IInv
<1>1. /\ UNCHANGED <<chunk, result, earned, chain, unstaking, since, excused, overtaken, claimants>>
      /\ request[k].at \in {"idle", "lease"}
  BY DEF LeaseUser, LeaseGate, Call, seen
<1>2. \E to \in RequestType : /\ request' = [request EXCEPT ![k] = to]
                              /\ to.at \in {"idle", "lease", "grant"}
                              /\ to.at # "idle" => to.wallet \in Wallets
  <2>1. ASSUME NEW w \in Wallets, request' = [request EXCEPT ![k] = [NoRequest EXCEPT !.at = "lease", !.wallet = w]]
        PROVE  <1>2
    <3> DEFINE to == [NoRequest EXCEPT !.at = "lease", !.wallet = w]
    <3>1. to \in RequestType /\ to.at = "lease" /\ to.wallet = w
      BY DEF NoRequest, RequestType
    <3>2. request' = [request EXCEPT ![k] = to]
      BY <2>1
    <3> HIDE DEF to
    <3> QED
      BY <3>1, <3>2
  <2>2. CASE LeaseUser(k)
    BY <2>1, <2>2, BondAssumption DEF LeaseUser, Call
  <2>3. CASE LeaseGate(k)
    <3> DEFINE to == IF Bonded(request[k].wallet) THEN [request[k] EXCEPT !.at = "grant"] ELSE NoRequest
    <3>1. request[k].at = "lease" /\ request' = [request EXCEPT ![k] = to]
      BY <2>3 DEF LeaseGate, Call
    <3>2. request[k] \in RequestType /\ request[k].wallet \in Wallets
      BY <3>1 DEF Named, TypeOK
    <3>3. to \in RequestType /\ to.at \in {"idle", "grant"} /\ (to.at # "idle" => to.wallet \in Wallets)
      BY <3>2 DEF NoRequest, RequestType
    <3> HIDE DEF to
    <3> QED
      BY <3>1, <3>3
  <2> QED
    BY <2>2, <2>3
<1>3. PICK to \in RequestType : /\ request' = [request EXCEPT ![k] = to]
                                /\ to.at \in {"idle", "lease", "grant"}
                                /\ to.at # "idle" => to.wallet \in Wallets
  BY <1>2
<1>4. /\ payout' \in [Keys -> Wallets \cup {NoWallet}] /\ moved' \in BOOLEAN
      /\ \A j \in Keys : j # k => payout'[j] = payout[j]
      /\ ~moved' => ~moved /\ (Working(k) => payout'[k] = payout[k])
  <2>1. ASSUME NEW w \in Wallets, payout' = [payout EXCEPT ![k] = w],
               moved' = (moved \/ (payout[k] # w /\ Working(k)))
        PROVE  <1>4
    <3>1. moved' \in BOOLEAN /\ (~moved' => ~moved /\ (Working(k) => payout[k] = w))
      BY <2>1
    <3> QED
      BY <2>1, <3>1 DEF TypeOK
  <2>2. CASE UNCHANGED <<payout, moved>>
    BY <2>2 DEF TypeOK
  <2> QED
    BY <2>1, <2>2 DEF LeaseUser, LeaseGate, seen
<1>5. /\ \A j \in Keys : j # k => Staker(j)' = Staker(j)
      /\ ~moved' => ~moved /\ (Working(k) => Staker(k)' = Staker(k))
  BY <1>4 DEF Staker
<1>6. /\ \A r \in Results : InVerification(r) /\ result[r].key = k => Working(k)
      /\ \A c \in Chunks : Busy(c) /\ chunk[c].by = k => Working(k)
  BY DEF Working, Busy
<1>7. TypeOK'
  BY <1>1, <1>3, <1>4 DEF TypeOK, chain
<1>8. Named'
  <2>1. \A j \in Keys : j # k => request'[j] = request[j]
    BY <1>3 DEF TypeOK
  <2>2. request'[k] = to
    BY <1>3 DEF TypeOK
  <2>3. ~moved' => \A r \in Results : InVerification(r) => result[r].bond = Staker(result[r].key)'
    <3> SUFFICES ASSUME ~moved', NEW r \in Results, InVerification(r) PROVE result[r].bond = Staker(result[r].key)'
      OBVIOUS
    <3>1. result[r].key \in Keys /\ result[r].bond = Staker(result[r].key)
      BY <1>5 DEF Named, InVerification
    <3> QED
      BY <1>1, <1>5, <1>6, <3>1 DEF Staker
  <2>4. \A j \in Keys : request'[j].at \in {"submit", "insert"} =>
            request'[j].chunk \in Chunks /\ request'[j].wallet = Staker(j)'
    BY <1>3, <1>5, <2>1, <2>2 DEF Named
  <2> QED
    BY <1>1, <1>3, <2>1, <2>2, <2>3, <2>4 DEF Named, InVerification
<1>9. Tracked'
  BY <1>1 DEF Tracked, On, InVerification
<1>10. Counted'
  <2> SUFFICES ASSUME ~moved', NEW w \in Wallets, NEW c \in Chunks, unstaking[w], Busy(c), Staker(chunk[c].by)' = w
               PROVE  c \in since[w] \cup excused \cup overtaken
    BY <1>1 DEF Counted, Busy, Staker
  <2>1. chunk[c].by \in Keys /\ Staker(chunk[c].by) = w
    BY <1>1, <1>5, <1>6 DEF Busy, Staker
  <2> QED
    BY <1>5, <2>1 DEF Counted
<1>11. Passed' /\ LockHolds'
  BY <1>1, <1>3, <1>4 DEF Passed, LockHolds, InVerification, TypeOK, chain
<1> QED
  BY <1>7, <1>8, <1>9, <1>10, <1>11

\* A submission reads its row, and the bond that row names; with the bond gone it
\* gets no further.
LEMMA SubmitsKeep ==
  ASSUME IInv, NEW k \in Keys, SubmitRead(k) \/ SubmitGate(k)
  PROVE  IInv'
<1> USE DEF IInv
<1>1. UNCHANGED <<payout, chunk, result, earned, chain, unstaking, seen>>
  BY DEF SubmitRead, SubmitGate
<1>2. \E to \in RequestType : /\ request' = [request EXCEPT ![k] = to]
                              /\ to.at \in {"idle", "submit", "insert"}
                              /\ to.at # "idle" => to.wallet = Staker(k) /\ to.chunk \in Chunks
                              /\ to.at = "insert" => stake[to.wallet].state = "active"
  <2>1. CASE SubmitRead(k)
    <3>1. PICK c \in Chunks : request' = [request EXCEPT ![k] = [at |-> "submit", wallet |-> Staker(k), chunk |-> c]]
      BY <2>1 DEF SubmitRead, Call
    <3> DEFINE to == [at |-> "submit", wallet |-> Staker(k), chunk |-> c]
    <3>2. to \in RequestType /\ to.at = "submit" /\ to.chunk \in Chunks /\ to.wallet = Staker(k)
      BY StakerIn DEF RequestType
    <3>3. request' = [request EXCEPT ![k] = to]
      BY <3>1
    <3> HIDE DEF to
    <3> QED
      BY <3>2, <3>3
  <2>2. CASE SubmitGate(k)
    <3> DEFINE to == IF Bonded(request[k].wallet) THEN [request[k] EXCEPT !.at = "insert"] ELSE NoRequest
    <3>1. request[k].at = "submit" /\ request' = [request EXCEPT ![k] = to]
      BY <2>2 DEF SubmitGate, Call
    <3>2. request[k].wallet = Staker(k) /\ request[k].chunk \in Chunks /\ request[k] \in RequestType
      BY <3>1 DEF Named, TypeOK
    <3>3. /\ to \in RequestType
          /\ to.at \in {"idle", "insert"}
          /\ to.at # "idle" => to.wallet = Staker(k) /\ to.chunk \in Chunks /\ Bonded(to.wallet)
      BY <3>2 DEF NoRequest, RequestType
    <3> HIDE DEF to
    <3> QED
      BY <3>1, <3>3 DEF Bonded
  <2> QED
    BY <2>1, <2>2
<1>3. PICK to \in RequestType : /\ request' = [request EXCEPT ![k] = to]
                                /\ to.at \in {"idle", "submit", "insert"}
                                /\ to.at # "idle" => to.wallet = Staker(k) /\ to.chunk \in Chunks
                                /\ to.at = "insert" => stake[to.wallet].state = "active"
  BY <1>2
<1>4. request'[k] = to /\ \A j \in Keys : j # k => request'[j] = request[j]
  BY <1>3 DEF TypeOK
<1>5. \A j \in Keys : Staker(j)' = Staker(j)
  BY <1>1 DEF Staker
<1>6. TypeOK'
  BY <1>1, <1>3 DEF TypeOK, chain, seen
<1>7. Named'
  <2>1. \A j \in Keys : request'[j].at # "idle" => request'[j].wallet \in Wallets
    BY <1>3, <1>4, StakerIn DEF Named
  <2>2. \A j \in Keys : request'[j].at \in {"submit", "insert"} =>
            request'[j].chunk \in Chunks /\ request'[j].wallet = Staker(j)'
    BY <1>3, <1>4, <1>5 DEF Named
  <2> QED
    BY <1>1, <1>5, <2>1, <2>2 DEF Named, InVerification, seen
<1>8. Tracked' /\ Counted' /\ LockHolds'
  BY <1>1 DEF Tracked, On, Counted, LockHolds, Busy, InVerification, Staker, chain, seen
<1>9. Passed'
  BY <1>1, <1>3, <1>4 DEF Passed, chain, seen
<1> QED
  BY <1>6, <1>7, <1>8, <1>9

\* A result is written under the bond that was looked at; one whose lease has gone
\* is recorded as too late.
LEMMA InsertKeeps ==
  ASSUME IInv, NEW k \in Keys, SubmitInsert(k)
  PROVE  IInv'
<1> USE DEF IInv
<1> DEFINE c == request[k].chunk
<1>1. /\ request[k].at = "insert" /\ request' = [request EXCEPT ![k] = NoRequest]
      /\ chunk' = [chunk EXCEPT ![c].state = "submitted"]
      /\ overtaken' = IF chunk[c] = [state |-> "leased", by |-> k] THEN overtaken ELSE overtaken \cup {c}
      /\ UNCHANGED <<payout, earned, chain, unstaking, since, excused, moved, claimants>>
  BY DEF SubmitInsert, Call
<1>2. c \in Chunks /\ request[k].wallet = Staker(k) /\ request[k].wallet \in Wallets
  BY <1>1 DEF Named
<1>3. PICK d \in Chunks : d = c
  BY <1>2
<1>4. PICK r \in Results : /\ result[r].at = "none"
                           /\ result' = [result EXCEPT ![r] = [at |-> "submitted", key |-> k, chunk |-> c, bond |-> request[k].wallet]]
  BY DEF SubmitInsert
<1>5. /\ result' \in [Results -> ResultType]
      /\ result'[r].at = "submitted" /\ result'[r].key = k /\ result'[r].chunk = d /\ result'[r].bond = Staker(k)
      /\ \A q \in Results : q # r => result'[q] = result[q]
  BY <1>2, <1>3, <1>4 DEF TypeOK, ResultType
<1>6. /\ chunk' \in [Chunks -> ChunkType]
      /\ chunk'[d].state = "submitted" /\ chunk'[d].by = chunk[d].by
      /\ \A e \in Chunks : e # d => chunk'[e] = chunk[e]
  <2> DEFINE new == [chunk[d] EXCEPT !.state = "submitted"]
  <2>1. new \in ChunkType /\ new.state = "submitted" /\ new.by = chunk[d].by
    BY DEF TypeOK, ChunkType, ChunkStates
  <2>2. chunk' = [chunk EXCEPT ![d] = new]
    BY <1>1, <1>3
  <2> HIDE DEF new
  <2> QED
    BY <2>1, <2>2 DEF TypeOK
<1>7. /\ overtaken \subseteq overtaken' /\ overtaken' \subseteq overtaken \cup {d}
      /\ d \notin overtaken' => chunk[d].state = "leased" /\ chunk[d].by = k
  BY <1>1, <1>3
<1>8. request'[k] = NoRequest /\ \A j \in Keys : j # k => request'[j] = request[j]
  BY <1>1 DEF TypeOK
<1>9. /\ \A j \in Keys : Staker(j)' = Staker(j)
      /\ InVerification(r)' /\ ~InVerification(r)
      /\ \A q \in Results : q # r => (InVerification(q)' <=> InVerification(q))
  BY <1>1, <1>4, <1>5 DEF Staker, InVerification
<1> HIDE DEF c
<1>10. TypeOK'
  BY <1>1, <1>5, <1>6, <1>7 DEF TypeOK, chain, NoRequest, RequestType
<1>11. Named'
  <2>1. \A q \in Results : result'[q].at # "none" => result'[q].key \in Keys /\ result'[q].chunk \in Chunks
    BY <1>5 DEF Named
  <2>2. \A q \in Results : InVerification(q)' => result'[q].bond \in Wallets
    BY <1>2, <1>5, <1>9 DEF Named
  <2>3. ~moved' => \A q \in Results : InVerification(q)' => result'[q].bond = Staker(result[q].key)'
    <3> SUFFICES ASSUME ~moved, NEW q \in Results, InVerification(q)' PROVE result'[q].bond = Staker(result[q].key)'
      BY <1>1
    <3>1. CASE q = r
      BY <1>1, <1>5, <3>1 DEF Staker
    <3>2. CASE q # r
      BY <1>1, <1>5, <1>9, <3>2 DEF Named, Staker
    <3> QED
      BY <3>1, <3>2
  <2>4. /\ \A j \in Keys : request'[j].at # "idle" => request'[j].wallet \in Wallets
        /\ \A j \in Keys : request'[j].at \in {"submit", "insert"} =>
               request'[j].chunk \in Chunks /\ request'[j].wallet = Staker(j)'
    BY <1>8, <1>9 DEF Named, NoRequest
  <2> QED
    BY <2>1, <2>2, <2>3, <2>4 DEF Named
<1>12. Tracked'
  <2> SUFFICES ASSUME NEW e \in Chunks, e \notin overtaken'
               PROVE  /\ chunk'[e].state \in {"submitted", "verifying"} => \E q \in Results : On(q, e)'
                      /\ \A q \in Results : On(q, e)' => result'[q].at = chunk'[e].state /\ result'[q].key = chunk'[e].by
                      /\ \A q, p \in Results : On(q, e)' /\ On(p, e)' => q = p
    BY DEF Tracked
  <2>1. e \notin overtaken
    BY <1>7
  <2>2. CASE e = d
    <3>1. chunk[e].state = "leased" /\ chunk[e].by = k
      BY <1>7, <2>2
    <3>2. \A q \in Results : ~On(q, e)
      BY <2>1, <3>1 DEF Tracked, On, InVerification
    <3>3. \A q \in Results : On(q, e)' <=> q = r
      BY <1>5, <1>9, <2>2, <3>2 DEF On
    <3> QED
      BY <1>5, <1>6, <2>2, <3>1, <3>3
  <2>3. CASE e # d
    <3>1. \A q \in Results : On(q, e)' <=> On(q, e)
      BY <1>5, <1>9, <2>3 DEF On
    <3>2. \A q \in Results : On(q, e) => q # r
      BY <1>9 DEF On
    <3> QED
      BY <1>5, <1>6, <2>1, <2>3, <3>1, <3>2 DEF Tracked
  <2> QED
    BY <2>2, <2>3
<1>13. Counted'
  <2> SUFFICES ASSUME ~moved, NEW w \in Wallets, NEW e \in Chunks, unstaking[w], Busy(e)', Staker(chunk[e].by)' = w
               PROVE  e \in since[w] \cup excused \cup overtaken'
    BY <1>1, <1>9 DEF Counted, Busy
  <2>1. CASE e \in overtaken'
    BY <2>1
  <2>2. CASE e \notin overtaken'
    <3>1. Busy(e) /\ chunk'[e].by = chunk[e].by
      BY <1>6, <1>7, <2>2 DEF Busy
    <3> QED
      BY <1>1, <1>7, <3>1 DEF Counted, Staker
  <2> QED
    BY <2>1, <2>2
<1>14. Passed'
  <2> SUFFICES ASSUME ~moved, NEW j \in Keys, request'[j].at = "insert",
                      chunk'[request'[j].chunk] = [state |-> "leased", by |-> j],
                      stake[request'[j].wallet].state = "withdrawn"
               PROVE  request'[j].chunk \in excused \cup overtaken'
    BY <1>1 DEF Passed, chain
  <2>1. request'[j] = request[j] /\ request[j].chunk \in Chunks
    BY <1>8 DEF NoRequest, Named
  <2>2. chunk[request[j].chunk] = [state |-> "leased", by |-> j]
    BY <1>6, <2>1
  <2> QED
    BY <1>7, <2>1, <2>2 DEF Passed
<1>15. LockHolds'
  <2> SUFFICES ASSUME ~moved, NEW q \in Results, InVerification(q)', stake[result'[q].bond].state = "withdrawn"
               PROVE  result'[q].chunk \in excused \cup overtaken'
    BY <1>1 DEF LockHolds, chain
  <2>1. CASE q = r
    <3>1. CASE d \in overtaken'
      BY <1>5, <2>1, <3>1
    <3>2. CASE d \notin overtaken'
      <4>1. chunk[request[k].chunk] = [state |-> "leased", by |-> k] /\ request[k].chunk = d
        BY <1>1, <1>3, <3>2 DEF c
      <4>2. stake[request[k].wallet].state = "withdrawn"
        BY <1>2, <1>5, <2>1
      <4> QED
        BY <1>1, <1>5, <1>7, <2>1, <4>1, <4>2 DEF Passed
    <3> QED
      BY <3>1, <3>2
  <2>2. CASE q # r
    BY <1>5, <1>7, <1>9, <2>2 DEF LockHolds
  <2> QED
    BY <2>1, <2>2
<1> QED
  BY <1>10, <1>11, <1>12, <1>13, <1>14, <1>15

\* A lease is granted: the chunk is new to its bond, and counts as newer than a
\* withdrawal under way.
LEMMA GrantKeeps ==
  ASSUME IInv, NEW k \in Keys, LeaseGrant(k)
  PROVE  IInv'
<1> USE DEF IInv
<1>1. PICK c \in Chunks :
         /\ chunk[c].state = "pending"
         /\ chunk' = [chunk EXCEPT ![c] = [state |-> "leased", by |-> k]]
         /\ since' = [w \in Wallets |-> IF Owns(w, k) /\ unstaking[w] THEN since[w] \cup {c}
                                     ELSE since[w] \ {c}]
         /\ excused' = excused \ {c}
  BY DEF LeaseGrant
<1>2. /\ request[k].at = "grant" /\ request' = [request EXCEPT ![k] = NoRequest]
      /\ UNCHANGED <<payout, result, earned, chain, unstaking, overtaken, moved, claimants>>
  BY DEF LeaseGrant, Call
<1>3. /\ chunk' \in [Chunks -> ChunkType]
      /\ chunk'[c].state = "leased" /\ chunk'[c].by = k
      /\ \A e \in Chunks : e # c => chunk'[e] = chunk[e]
  BY <1>1 DEF TypeOK, ChunkType, ChunkStates
<1>4. request'[k] = NoRequest /\ \A j \in Keys : j # k => request'[j] = request[j]
  BY <1>2 DEF TypeOK
<1>5. \A j \in Keys : Staker(j)' = Staker(j)
  BY <1>2 DEF Staker
<1>6. c \notin overtaken => \A r \in Results : ~On(r, c)
  BY <1>1 DEF Tracked, On, InVerification
<1>7. TypeOK'
  BY <1>1, <1>2, <1>3 DEF TypeOK, chain, NoRequest, RequestType
<1>8. Named'
  BY <1>2, <1>4, <1>5 DEF Named, InVerification, NoRequest
<1>9. Tracked'
  BY <1>2, <1>3, <1>6 DEF Tracked, On, InVerification
<1>10. Counted'
  <2> SUFFICES ASSUME ~moved, NEW w \in Wallets, NEW e \in Chunks, unstaking[w], Busy(e)', Staker(chunk[e].by)' = w
               PROVE  e \in since'[w] \cup excused' \cup overtaken
    BY <1>2, <1>5 DEF Counted, Busy
  <2>1. CASE e = c
    <3>1. Owns(w, k)
      BY <1>2, <1>3, <2>1 DEF Owns, Staker
    <3> QED
      BY <1>1, <2>1, <3>1
  <2>2. CASE e # c
    <3>1. Busy(e) /\ chunk'[e].by = chunk[e].by
      BY <1>3, <2>2 DEF Busy
    <3>2. e \in since[w] \cup excused \cup overtaken
      BY <1>2, <3>1 DEF Counted, Staker
    <3> QED
      BY <1>1, <2>2, <3>2
  <2> QED
    BY <2>1, <2>2
<1>11. Passed'
  <2> SUFFICES ASSUME ~moved, NEW j \in Keys, request'[j].at = "insert",
                      chunk'[request'[j].chunk] = [state |-> "leased", by |-> j],
                      stake[request'[j].wallet].state = "withdrawn"
               PROVE  request'[j].chunk \in excused' \cup overtaken
    BY <1>2 DEF Passed, chain
  <2>1. j # k /\ request'[j] = request[j] /\ request[j].chunk \in Chunks
    BY <1>4 DEF NoRequest, Named
  <2>2. request[j].chunk # c
    BY <1>3, <2>1
  <2> QED
    BY <1>1, <1>3, <2>1, <2>2 DEF Passed
<1>12. LockHolds'
  <2> SUFFICES ASSUME ~moved, NEW r \in Results, InVerification(r), stake[result[r].bond].state = "withdrawn"
               PROVE  result[r].chunk \in excused' \cup overtaken
    BY <1>2 DEF LockHolds, InVerification, chain
  <2>1. result[r].chunk \in excused \cup overtaken
    BY DEF LockHolds
  <2> QED
    BY <1>1, <1>6, <2>1 DEF On
<1> QED
  BY <1>7, <1>8, <1>9, <1>10, <1>11, <1>12

\* A lease runs out.
LEMMA ExpiryKeeps ==
  ASSUME IInv, NEW c \in Chunks, LeaseExpires(c)
  PROVE  IInv'
<1> USE DEF IInv
<1>1. /\ chunk[c].state = "leased" /\ chunk' = [chunk EXCEPT ![c] = Free]
      /\ UNCHANGED <<payout, request, result, earned, chain, unstaking, seen>>
  BY DEF LeaseExpires
<1>2. /\ chunk' \in [Chunks -> ChunkType] /\ chunk'[c].state = "pending"
      /\ \A e \in Chunks : e # c => chunk'[e] = chunk[e]
  BY <1>1 DEF TypeOK, ChunkType, ChunkStates, Free
<1>3. TypeOK' /\ Named'
  BY <1>1, <1>2 DEF TypeOK, Named, InVerification, Staker, chain, seen
<1>4. Tracked'
  <2>1. c \notin overtaken => \A r \in Results : ~On(r, c)
    BY <1>1 DEF Tracked, On, InVerification
  <2> QED
    BY <1>1, <1>2, <2>1 DEF Tracked, On, InVerification, seen
<1>5. Counted' /\ Passed' /\ LockHolds'
  BY <1>1, <1>2 DEF Counted, Passed, LockHolds, Named, Busy, InVerification, Staker, chain, seen
<1> QED
  BY <1>3, <1>4, <1>5

\* A verdict settles the result, or opens a challenge, and the chunk goes with it.
LEMMA JudgeKeeps ==
  ASSUME IInv, NEW r \in Results, Judge(r)
  PROVE  IInv'
<1> USE DEF IInv
<1> DEFINE c == result[r].chunk
<1>1. InVerification(r) /\ UNCHANGED <<payout, request, chain, unstaking, seen>>
  BY DEF Judge
<1>2. PICK d \in Chunks : d = c
  BY <1>1 DEF Named, InVerification
<1>3. result[r].key \in Keys /\ result[r] \in ResultType /\ chunk[d] \in ChunkType
  BY <1>1 DEF Named, InVerification, TypeOK
<1>4. /\ earned' \in [Keys -> Nat]
      /\ \E new \in ResultType, to \in ChunkType :
            /\ result' = [result EXCEPT ![r] = new] /\ chunk' = [chunk EXCEPT ![d] = to]
            /\ \/ new = NoResult
               \/ new.at = "slash" /\ new.key = result[r].key /\ new.chunk = d
               \/ /\ new.at = "verifying" /\ new.key = result[r].key /\ new.chunk = d /\ new.bond = result[r].bond
                  /\ to.state = "verifying" /\ to.by = chunk[d].by
            /\ to.state \in {"pending", "accepted"} \/ new.at = "verifying"
  <2>0. /\ NoResult \in ResultType /\ Free \in ChunkType /\ Free.state = "pending"
        /\ [result[r] EXCEPT !.at = "slash"] \in ResultType
        /\ [result[r] EXCEPT !.at = "verifying"] \in ResultType
        /\ [chunk[d] EXCEPT !.state = "accepted"] \in ChunkType
        /\ [chunk[d] EXCEPT !.state = "verifying"] \in ChunkType
    BY <1>3 DEF NoResult, ResultType, Free, ChunkType, ChunkStates
  <2>1. CASE /\ result' = [result EXCEPT ![r] = NoResult]
             /\ chunk' = [chunk EXCEPT ![c].state = "accepted"]
             /\ earned' = [earned EXCEPT ![result[r].key] = @ + 1]
    <3> DEFINE to == [chunk[d] EXCEPT !.state = "accepted"]
    <3>1. earned' \in [Keys -> Nat]
      BY <1>3, <2>1 DEF TypeOK
    <3>2. to \in ChunkType /\ to.state = "accepted" /\ chunk' = [chunk EXCEPT ![d] = to]
      BY <1>2, <1>3, <2>0, <2>1 DEF ChunkType
    <3> HIDE DEF to
    <3> QED
      BY <2>0, <2>1, <3>1, <3>2
  <2>2. CASE /\ result' = [result EXCEPT ![r].at = "verifying"]
             /\ chunk' = [chunk EXCEPT ![c].state = "verifying"] /\ UNCHANGED earned
    <3> DEFINE to  == [chunk[d] EXCEPT !.state = "verifying"]
               new == [result[r] EXCEPT !.at = "verifying"]
    <3>1. earned' \in [Keys -> Nat]
      BY <2>2 DEF TypeOK
    <3>2. /\ to \in ChunkType /\ to.state = "verifying" /\ to.by = chunk[d].by
          /\ chunk' = [chunk EXCEPT ![d] = to]
      BY <1>2, <1>3, <2>0, <2>2 DEF ChunkType
    <3>3. /\ new \in ResultType /\ result' = [result EXCEPT ![r] = new]
          /\ new.at = "verifying" /\ new.key = result[r].key /\ new.chunk = d /\ new.bond = result[r].bond
      BY <1>2, <1>3, <2>0, <2>2 DEF ResultType
    <3> HIDE DEF to, new
    <3> QED
      BY <3>1, <3>2, <3>3
  <2>3. CASE /\ result' = [result EXCEPT ![r].at = "slash"]
             /\ chunk' = [chunk EXCEPT ![c] = Free] /\ UNCHANGED earned
    <3> DEFINE new == [result[r] EXCEPT !.at = "slash"]
    <3>1. earned' \in [Keys -> Nat] /\ chunk' = [chunk EXCEPT ![d] = Free]
      BY <1>2, <2>3 DEF TypeOK
    <3>2. /\ new \in ResultType /\ result' = [result EXCEPT ![r] = new]
          /\ new.at = "slash" /\ new.key = result[r].key /\ new.chunk = d
      BY <1>2, <1>3, <2>0, <2>3 DEF ResultType
    <3> HIDE DEF new
    <3> QED
      BY <2>0, <3>1, <3>2
  <2>4. CASE /\ result' = [result EXCEPT ![r] = NoResult]
             /\ chunk' = [chunk EXCEPT ![c] = Free] /\ UNCHANGED earned
    <3>1. earned' \in [Keys -> Nat] /\ chunk' = [chunk EXCEPT ![d] = Free]
      BY <1>2, <2>4 DEF TypeOK
    <3> QED
      BY <2>0, <2>4, <3>1
  <2> QED
    BY <2>1, <2>2, <2>3, <2>4 DEF Judge
<1>5. PICK new \in ResultType, to \in ChunkType :
            /\ result' = [result EXCEPT ![r] = new] /\ chunk' = [chunk EXCEPT ![d] = to]
            /\ \/ new = NoResult
               \/ new.at = "slash" /\ new.key = result[r].key /\ new.chunk = d
               \/ /\ new.at = "verifying" /\ new.key = result[r].key /\ new.chunk = d /\ new.bond = result[r].bond
                  /\ to.state = "verifying" /\ to.by = chunk[d].by
            /\ to.state \in {"pending", "accepted"} \/ new.at = "verifying"
  BY <1>4
<1>6. /\ result' \in [Results -> ResultType] /\ chunk' \in [Chunks -> ChunkType]
      /\ result'[r] = new /\ \A q \in Results : q # r => result'[q] = result[q]
      /\ chunk'[d] = to /\ \A e \in Chunks : e # d => chunk'[e] = chunk[e]
  BY <1>5 DEF TypeOK
<1>7. /\ InVerification(r)' => new.at = "verifying" /\ On(r, d)'
      /\ \A q \in Results : q # r => (InVerification(q)' <=> InVerification(q))
      /\ \A q \in Results, e \in Chunks : q # r \/ e # d => (On(q, e)' <=> On(q, e))
  BY <1>1, <1>2, <1>5, <1>6 DEF InVerification, On, NoResult
<1>8. \A q \in Results : InVerification(q)' => /\ InVerification(q) /\ result'[q].key = result[q].key
                                               /\ result'[q].chunk = result[q].chunk /\ result'[q].bond = result[q].bond
  BY <1>1, <1>2, <1>5, <1>6, <1>7 DEF InVerification, NoResult
<1> HIDE DEF c
<1>9. TypeOK'
  BY <1>1, <1>4, <1>6 DEF TypeOK, chain, seen
<1>10. Named'
  <2>1. \A q \in Results : result'[q].at # "none" => result'[q].key \in Keys /\ result'[q].chunk \in Chunks
    BY <1>3, <1>5, <1>6 DEF Named, NoResult
  <2>2. \A q \in Results : InVerification(q)' => result'[q].bond \in Wallets
    BY <1>8 DEF Named
  <2>3. ~moved' => \A q \in Results : InVerification(q)' => result'[q].bond = Staker(result[q].key)'
    <3> SUFFICES ASSUME ~moved, NEW q \in Results, InVerification(q)' PROVE result'[q].bond = Staker(result[q].key)'
      BY <1>1 DEF seen
    <3> QED
      BY <1>1, <1>8 DEF Named, Staker
  <2> QED
    BY <1>1, <2>1, <2>2, <2>3 DEF Named, Staker
<1>11. Tracked'
  <2> SUFFICES ASSUME NEW e \in Chunks, e \notin overtaken
               PROVE  /\ chunk'[e].state \in {"submitted", "verifying"} => \E q \in Results : On(q, e)'
                      /\ \A q \in Results : On(q, e)' => result'[q].at = chunk'[e].state /\ result'[q].key = chunk'[e].by
                      /\ \A q, p \in Results : On(q, e)' /\ On(p, e)' => q = p
    BY <1>1 DEF Tracked, seen
  <2>1. CASE e = d
    <3>1. On(r, d) /\ result[r].key = chunk[d].by /\ \A q \in Results : On(q, d) => q = r
      BY <1>1, <1>2, <2>1 DEF Tracked, On, c
    <3>2. \A q \in Results : On(q, d)' => q = r
      BY <1>7, <3>1
    <3>3. CASE new.at = "verifying"
      <4>1. /\ On(r, d)' /\ to.state = "verifying" /\ to.by = chunk[d].by /\ new.key = result[r].key
        BY <1>2, <1>5, <1>6, <3>3 DEF On, InVerification, NoResult
      <4> QED
        BY <1>6, <2>1, <3>1, <3>2, <3>3, <4>1
    <3>4. CASE new.at # "verifying"
      <4>1. ~On(r, d)' /\ to.state \in {"pending", "accepted"}
        BY <1>5, <1>7, <3>4 DEF On
      <4> QED
        BY <1>6, <2>1, <3>2, <4>1
    <3> QED
      BY <3>3, <3>4
  <2>2. CASE e # d
    <3>1. \A q \in Results : On(q, e)' <=> On(q, e)
      BY <1>7, <2>2
    <3>2. \A q \in Results : On(q, e) => q # r
      BY <1>2, <2>2 DEF On, c
    <3> QED
      BY <1>6, <2>2, <3>1, <3>2 DEF Tracked
  <2> QED
    BY <2>1, <2>2
<1>12. Counted'
  <2> SUFFICES ASSUME ~moved, NEW w \in Wallets, NEW e \in Chunks, unstaking[w], Busy(e)', Staker(chunk[e].by)' = w,
                      e \notin overtaken
               PROVE  e \in since[w] \cup excused \cup overtaken
    BY <1>1 DEF Counted, Busy, seen
  <2>1. Busy(e) /\ chunk'[e].by = chunk[e].by
    <3>1. CASE e = d
      <4>1. On(r, d) /\ result[r].at = chunk[d].state
        BY <1>1, <1>2, <3>1 DEF Tracked, On, c
      <4>2. to.by = chunk[d].by
        BY <1>5, <1>6, <3>1 DEF Busy, NoResult
      <4> QED
        BY <1>1, <1>6, <3>1, <4>1, <4>2 DEF Busy, InVerification
    <3>2. CASE e # d
      BY <1>6, <3>2 DEF Busy
    <3> QED
      BY <3>1, <3>2
  <2> QED
    BY <1>1, <2>1 DEF Counted, Staker
<1>13. Passed'
  <2> SUFFICES ASSUME ~moved, NEW j \in Keys, request[j].at = "insert",
                      chunk'[request[j].chunk] = [state |-> "leased", by |-> j],
                      stake[request[j].wallet].state = "withdrawn"
               PROVE  request[j].chunk \in excused \cup overtaken
    BY <1>1 DEF Passed, chain, seen
  <2>1. request[j].chunk \in Chunks
    BY DEF Named
  <2>2. request[j].chunk # d
    BY <1>5, <1>6 DEF NoResult
  <2> QED
    BY <1>6, <2>1, <2>2 DEF Passed
<1>14. LockHolds'
  BY <1>1, <1>8 DEF LockHolds, chain, seen
<1> QED
  BY <1>9, <1>10, <1>11, <1>12, <1>13, <1>14

\* Bonding, slashing, the clock and a claim: no bond becomes a withdrawn one.
LEMMA BondsKeep ==
  ASSUME IInv, \/ Tick
               \/ \E w \in Wallets : Stake(w) \/ Claim(w)
               \/ \E r \in Results : Slash(r)
  PROVE  IInv'
<1> USE DEF IInv
<1>1. /\ UNCHANGED <<payout, request, chunk, earned, unstaking, since, excused, overtaken, moved>>
      /\ slot' \in Nat /\ claimants' \in [Keys -> SUBSET Wallets]
  <2>1. CASE Tick \/ \E w \in Wallets : Stake(w)
    BY <2>1 DEF Tick, Stake, books, seen, TypeOK
  <2>2. ASSUME NEW w \in Wallets, Claim(w) PROVE <1>1
    BY <2>2 DEF Claim, books, TypeOK
  <2>3. CASE \E r \in Results : Slash(r)
    BY <2>3 DEF Slash, seen, TypeOK
  <2> QED
    BY <2>1, <2>2, <2>3
<1>2. /\ result' \in [Results -> ResultType]
      /\ \A r \in Results : result'[r] = result[r] \/ (result'[r] = NoResult /\ ~InVerification(r))
  <2>1. CASE Tick \/ \E w \in Wallets : Stake(w) \/ Claim(w)
    BY <2>1 DEF Tick, Stake, Claim, books, TypeOK
  <2>2. ASSUME NEW r \in Results, Slash(r) PROVE <1>2
    <3>1. NoResult \in ResultType
      BY DEF NoResult, ResultType
    <3>2. result[r].at = "slash" /\ result' = [result EXCEPT ![r] = NoResult]
      BY <2>2 DEF Slash
    <3> QED
      BY <3>1, <3>2 DEF InVerification, TypeOK
  <2> QED
    BY <2>1, <2>2
<1>3. /\ stake' \in [Wallets -> [amount : Nat, state : BondStates, at : Nat]]
      /\ \A w \in Wallets : stake'[w].state = "withdrawn" => stake[w].state = "withdrawn"
  <2>1. CASE Tick \/ \E w \in Wallets : Claim(w)
    BY <2>1 DEF Tick, Claim, TypeOK
  <2>2. ASSUME NEW w \in Wallets, Stake(w)
        PROVE  <1>3
    <3>1. stake' = [stake EXCEPT ![w] = [amount |-> stake[w].amount + 1, state |-> "active", at |-> slot]]
      BY <2>2 DEF Stake, TypeOK
    <3> QED
      BY <3>1 DEF TypeOK, BondStates
  <2>3. ASSUME NEW r \in Results, Slash(r)
        PROVE  <1>3
    <3>1. PICK w \in Wallets : w = Staker(result[r].key)
      BY <2>3, StakerIn DEF Slash, Named
    <3> DEFINE left == IF stake[w].amount > 0 THEN stake[w].amount - 1 ELSE 0
               to == [NoBond EXCEPT !.state = "slashed", !.amount = left]
    <3>2. stake' = [stake EXCEPT ![w] = to] \/ stake' = stake
      BY <2>3, <3>1 DEF Slash
    <3>3. left \in Nat
      BY DEF TypeOK
    <3> HIDE DEF left
    <3>4. to \in [amount : Nat, state : BondStates, at : Nat] /\ to.state = "slashed"
      BY <3>3 DEF NoBond, BondStates
    <3> HIDE DEF to
    <3>5. CASE stake' = [stake EXCEPT ![w] = to]
      BY <3>4, <3>5 DEF TypeOK
    <3>6. CASE stake' = stake
      BY <3>6 DEF TypeOK
    <3> QED
      BY <3>2, <3>5, <3>6
  <2> QED
    BY <2>1, <2>2, <2>3
<1>4. /\ \A r \in Results : InVerification(r)' => InVerification(r) /\ result'[r] = result[r]
      /\ \A r \in Results : InVerification(r) => InVerification(r)' /\ result'[r] = result[r]
      /\ \A r \in Results, c \in Chunks : On(r, c)' <=> On(r, c)
  BY <1>2 DEF InVerification, On, NoResult
<1>5. TypeOK'
  BY <1>1, <1>2, <1>3 DEF TypeOK
<1>6. Named'
  <2>1. \A r \in Results : result'[r].at # "none" => result'[r].key \in Keys /\ result'[r].chunk \in Chunks
    BY <1>2 DEF Named, NoResult
  <2>2. ~moved' => \A r \in Results : InVerification(r)' => result'[r].bond = Staker(result[r].key)'
    BY <1>1, <1>4 DEF Named, Staker
  <2> QED
    BY <1>1, <1>4, <2>1, <2>2 DEF Named, Staker
<1>7. Tracked'
  <2> SUFFICES ASSUME NEW e \in Chunks, e \notin overtaken
               PROVE  /\ chunk[e].state \in {"submitted", "verifying"} => \E q \in Results : On(q, e)'
                      /\ \A q \in Results : On(q, e)' => result'[q].at = chunk[e].state /\ result'[q].key = chunk[e].by
                      /\ \A q, p \in Results : On(q, e)' /\ On(p, e)' => q = p
    BY <1>1 DEF Tracked
  <2>1. \A q \in Results : On(q, e) => result'[q] = result[q]
    BY <1>4 DEF On
  <2> QED
    BY <1>4, <2>1 DEF Tracked
<1>8. Counted'
  BY <1>1 DEF Counted, Busy, Staker
<1>9. Passed'
  BY <1>1, <1>3 DEF Passed, Named
<1>10. LockHolds'
  BY <1>1, <1>3, <1>4 DEF LockHolds, Named
<1> QED
  BY <1>5, <1>6, <1>7, <1>8, <1>9, <1>10

\* A withdrawal is counted: what is leased or submitted blocks it, and a result
\* that is challenged by then is excused.
LEMMA CountKeeps ==
  ASSUME IInv, NEW w \in Wallets, CountWork(w)
  PROVE  IInv'
<1> USE DEF IInv
<1>1. /\ Outstanding(w) = {}
      /\ unstaking' = [unstaking EXCEPT ![w] = TRUE]
      /\ excused' = excused \cup {result[r].chunk : r \in {r \in Results : result[r].at = "verifying" /\ result[r].bond = w}}
      /\ UNCHANGED <<books, chain, since, overtaken, moved, claimants>>
  BY DEF CountWork
<1>2. excused \subseteq excused' /\ excused' \subseteq Chunks
  BY <1>1 DEF TypeOK, Named
<1>3. TypeOK'
  BY <1>1, <1>2 DEF TypeOK, books, chain
<1>4. Named' /\ Tracked'
  BY <1>1 DEF Named, Tracked, On, InVerification, Staker, books
<1>5. Counted'
  <2> SUFFICES ASSUME ~moved, NEW v \in Wallets, NEW c \in Chunks,
                      unstaking'[v], Busy(c), Staker(chunk[c].by) = v, c \notin overtaken
               PROVE  c \in since[v] \cup excused'
    BY <1>1 DEF Counted, Busy, Staker, books
  <2>1. CASE v = w
    <3>1. Owns(w, chunk[c].by)
      BY <2>1 DEF Owns, Staker
    <3>2. chunk[c].state = "verifying"
      BY <1>1, <3>1 DEF Outstanding, Busy
    <3>3. PICK r \in Results : On(r, c)
      BY <3>2 DEF Tracked
    <3>4. result[r].at = "verifying" /\ result[r].chunk = c /\ result[r].key = chunk[c].by
      BY <3>2, <3>3 DEF Tracked, On
    <3>5. result[r].bond = w
      BY <2>1, <3>3, <3>4 DEF Named, On
    <3> QED
      BY <1>1, <3>4, <3>5
  <2>2. CASE v # w
    BY <1>1, <1>2, <2>2 DEF Counted, TypeOK
  <2> QED
    BY <2>1, <2>2
<1>6. Passed' /\ LockHolds'
  BY <1>1, <1>2 DEF Passed, LockHolds, InVerification, books, chain
<1> QED
  BY <1>3, <1>4, <1>5, <1>6

\* The bond is withdrawn: what is newer than the count is excused with it, and
\* nothing else stands on it.
LEMMA UnstakeKeeps ==
  ASSUME IInv, NEW w \in Wallets, Unstake(w)
  PROVE  IInv'
<1> USE DEF IInv
<1>1. /\ unstaking[w] /\ unstaking' = [unstaking EXCEPT ![w] = FALSE]
      /\ since' = [since EXCEPT ![w] = {}]
      /\ UNCHANGED <<books, slot, paid, overtaken, moved, claimants>>
      /\ \/ /\ stake' = [stake EXCEPT ![w] = [NoBond EXCEPT !.state = "withdrawn"]]
            /\ excused' = excused \cup since[w]
         \/ UNCHANGED <<stake, excused>>
  BY DEF Unstake
<1>2. [NoBond EXCEPT !.state = "withdrawn"] \in [amount : Nat, state : BondStates, at : Nat]
  BY DEF NoBond, BondStates
<1>3. /\ stake' \in [Wallets -> [amount : Nat, state : BondStates, at : Nat]]
      /\ \A v \in Wallets : v # w => stake'[v] = stake[v]
      /\ stake' = stake \/ since[w] \subseteq excused'
      /\ excused \subseteq excused' /\ excused' \subseteq Chunks
  BY <1>1, <1>2 DEF TypeOK
<1>4. TypeOK'
  BY <1>1, <1>3 DEF TypeOK, books
<1>5. Named' /\ Tracked'
  BY <1>1 DEF Named, Tracked, On, InVerification, Staker, books
<1>6. Counted'
  BY <1>1, <1>3 DEF Counted, Busy, TypeOK, Staker, books
<1>7. ~moved => \A c \in Chunks : Busy(c) /\ Staker(chunk[c].by) = w => c \in since[w] \cup excused \cup overtaken
  BY <1>1 DEF Counted
<1>8. Passed'
  <2> SUFFICES ASSUME ~moved, NEW k \in Keys, request[k].at = "insert",
                      chunk[request[k].chunk] = [state |-> "leased", by |-> k],
                      stake'[request[k].wallet].state = "withdrawn"
               PROVE  request[k].chunk \in excused' \cup overtaken
    BY <1>1 DEF Passed, books
  <2>1. /\ request[k].chunk \in Chunks /\ Busy(request[k].chunk) /\ chunk[request[k].chunk].by = k
        /\ request[k].wallet = Staker(k) /\ request[k].wallet \in Wallets
    BY DEF Named, Busy
  <2>2. CASE request[k].wallet = w /\ stake' # stake
    BY <1>3, <1>7, <2>1, <2>2
  <2>3. CASE request[k].wallet # w \/ stake' = stake
    BY <1>3, <2>1, <2>3 DEF Passed
  <2> QED
    BY <2>2, <2>3
<1>9. LockHolds'
  <2> SUFFICES ASSUME ~moved, NEW r \in Results, InVerification(r),
                      stake'[result[r].bond].state = "withdrawn", result[r].chunk \notin overtaken
               PROVE  result[r].chunk \in excused' \cup overtaken
    BY <1>1 DEF LockHolds, InVerification, books
  <2>1. PICK c \in Chunks : On(r, c) /\ result[r].chunk = c
    BY DEF Named, On, InVerification
  <2>2. /\ result[r].bond = Staker(chunk[c].by) /\ result[r].bond \in Wallets
        /\ chunk[c].by \in Keys /\ chunk[c].state \in {"submitted", "verifying"}
    BY <2>1 DEF Named, Tracked, On, InVerification
  <2>3. CASE result[r].bond = w /\ stake' # stake
    BY <1>3, <1>7, <2>1, <2>2, <2>3 DEF Busy
  <2>4. CASE result[r].bond # w \/ stake' = stake
    BY <1>3, <2>2, <2>4 DEF LockHolds
  <2> QED
    BY <2>3, <2>4
<1> QED
  BY <1>4, <1>5, <1>6, <1>8, <1>9

\* Every step keeps the invariant.
LEMMA IInvStep == IInv /\ [Next]_vars => IInv'
<1> SUFFICES ASSUME IInv, [Next]_vars PROVE IInv'
  OBVIOUS
<1>1. CASE \/ Tick
           \/ \E w \in Wallets : Stake(w) \/ Claim(w)
           \/ \E r \in Results : Slash(r)
  BY <1>1, BondsKeep
<1>2. ASSUME NEW w \in Wallets, CountWork(w) \/ Unstake(w) PROVE IInv'
  BY <1>2, CountKeeps, UnstakeKeeps
<1>3. ASSUME NEW k \in Keys, LeaseUser(k) \/ LeaseGate(k) PROVE IInv'
  BY <1>3, CallsKeep
<1>4. ASSUME NEW k \in Keys, LeaseGrant(k) \/ SubmitRead(k) \/ SubmitGate(k) \/ SubmitInsert(k)
      PROVE  IInv'
  BY <1>4, GrantKeeps, SubmitsKeep, InsertKeeps
<1>5. ASSUME NEW c \in Chunks, LeaseExpires(c) PROVE IInv'
  BY <1>5, ExpiryKeeps
<1>6. ASSUME NEW r \in Results, Judge(r) PROVE IInv'
  BY <1>6, JudgeKeeps
<1>7. CASE UNCHANGED vars
  <2>1. TypeOK' /\ Named' /\ Tracked'
    BY <1>7 DEF vars, books, chain, seen, IInv, TypeOK, Named, Tracked, On, InVerification, Staker
  <2>2. Counted' /\ Passed' /\ LockHolds'
    BY <1>7 DEF vars, books, chain, seen, IInv, Counted, Passed, LockHolds, Busy, InVerification, Staker
  <2> QED
    BY <2>1, <2>2 DEF IInv
<1> QED
  BY <1>1, <1>2, <1>3, <1>4, <1>5, <1>6, <1>7 DEF Next

\* The invariant holds from the first stake on.
LEMMA IInvariance == Spec => []IInv
  BY IInvInit, IInvStep, PTL DEF Spec

\* The types of the bonds, the calls, the chunks and the results.
THEOREM TypeCorrect == Spec => []TypeOK
<1>1. IInv => TypeOK
  BY DEF IInv
<1> QED
  BY <1>1, IInvariance, PTL

\* The unstake-lock of routes.ts: while no key with work under way changes its
\* wallet, a bond is not withdrawn under a result in verification, but for a
\* challenge that was open when the work was counted, a lease granted after that,
\* and a chunk some submission reached after its lease had gone.
THEOREM UnstakeLock == Spec => []LockHolds
<1>1. IInv => LockHolds
  BY DEF IInv
<1> QED
  BY <1>1, IInvariance, PTL
-----------------------------------------------------------------------------
(* What is claimed.                                                        *)

Mine(w)    == {k \in Keys : Owns(w, k)}
Claimed(w) == {k \in Keys : w \in claimants[k]}

\* A wallet was paid no more than the keys it claimed for have earned.
PaidInv == paid \in [Wallets -> Nat] /\ \A w \in Wallets : paid[w] <= Sum(earned, Claimed(w))

LEMMA FiniteKeys == IsFiniteSet(Keys)
BY BondAssumption, FS_Subset

\* Sums of earnings over some keys are numbers.
LEMMA EarnedSums ==
  ASSUME TypeOK, NEW T \in SUBSET Keys
  PROVE  IsFiniteSet(T) /\ Sum(earned, T) \in Nat
<1>1. \A k \in Keys : earned[k] \in Nat
  BY DEF TypeOK
<1>2. Sum(earned, T) \in Nat
  BY <1>1, FiniteKeys, SumPart
<1> QED
  BY <1>2, FiniteKeys, FS_Subset

\* Keys that have earned nothing do not count.
LEMMA EarnersCount ==
  ASSUME TypeOK, NEW T \in SUBSET Keys, NEW U \in SUBSET Keys, \A k \in T : earned[k] > 0 => k \in U
  PROVE  Sum(earned, T) <= Sum(earned, U)
<1> DEFINE P == {k \in T : earned[k] > 0}
           Z == {k \in T : earned[k] = 0}
<1>1. \A k \in Keys : earned[k] \in Nat
  BY DEF TypeOK
<1>2. P \in SUBSET T /\ Z \in SUBSET T /\ P \cap Z = {} /\ T = P \cup Z /\ P \in SUBSET U
  BY <1>1
<1>3. IsFiniteSet(T) /\ IsFiniteSet(U) /\ IsFiniteSet(Z)
  BY <1>2, EarnedSums
<1>4. Sum(earned, T) = Sum(earned, P) + Sum(earned, Z)
  <2>1. \A k \in T : earned[k] \in Int
    BY <1>1
  <2>2. Sum(earned, P \cup Z) = Sum(earned, P) + Sum(earned, Z)
    BY <1>2, <1>3, <2>1, SumUnion
  <2> QED
    BY <1>2, <2>2
<1>5. Sum(earned, Z) = 0
  <2>1. \A k \in Z : earned[k] = 0
    OBVIOUS
  <2>2. Z \in SUBSET Z
    OBVIOUS
  <2> QED
    BY <1>3, <2>1, <2>2, SumZero
<1>6. Sum(earned, P) <= Sum(earned, U) /\ Sum(earned, P) \in Nat
  <2>1. \A k \in U : earned[k] \in Nat
    BY <1>1
  <2> QED
    BY <1>2, <1>3, <2>1, SumPart
<1> QED
  BY <1>4, <1>5, <1>6

\* The books and the claims keep what was paid within what was earned.
LEMMA PaidStep == IInv /\ PaidInv /\ [Next]_vars => PaidInv'
<1> SUFFICES ASSUME IInv, PaidInv, [Next]_vars PROVE PaidInv'
  OBVIOUS
<1>0. TypeOK /\ \A k \in Keys : earned[k] \in Nat
  BY DEF IInv, TypeOK
<1>1. CASE UNCHANGED <<earned, paid, claimants>>
  BY <1>1 DEF PaidInv, Claimed
<1>2. ASSUME NEW r \in Results, Judge(r)
      PROVE  PaidInv'
  <2>1. /\ UNCHANGED <<paid, claimants>>
        /\ \A k \in Keys : earned'[k] \in Nat /\ earned[k] <= earned'[k]
    <3>1. UNCHANGED <<paid, claimants>>
      BY <1>2 DEF Judge, chain, seen
    <3>2. earned' = earned \/ earned' = [earned EXCEPT ![result[r].key] = @ + 1]
      BY <1>2 DEF Judge
    <3> QED
      BY <1>0, <3>1, <3>2 DEF TypeOK
  <2>2. ASSUME NEW w \in Wallets PROVE paid[w] <= Sum(earned', Claimed(w))
    <3>1. Claimed(w) \in SUBSET Keys /\ IsFiniteSet(Claimed(w)) /\ Sum(earned, Claimed(w)) \in Nat
      <4>1. Claimed(w) \in SUBSET Keys
        BY DEF Claimed
      <4> QED
        BY <1>0, <4>1, EarnedSums
    <3>2. PICK e : e = earned'
      OBVIOUS
    <3>3. \A x \in Claimed(w) : earned[x] \in Int /\ e[x] \in Int /\ earned[x] <= e[x]
      BY <1>0, <2>1, <3>1, <3>2
    <3>4. Sum(earned, Claimed(w)) <= Sum(e, Claimed(w))
      BY <3>1, <3>3, SumMonotone
    <3>5. Sum(e, Claimed(w)) \in Int
      BY <3>1, <3>3, SumTakes
    <3>6. paid[w] \in Nat /\ paid[w] <= Sum(earned, Claimed(w))
      BY DEF PaidInv
    <3> QED
      BY <3>1, <3>2, <3>4, <3>5, <3>6
  <2> QED
    BY <2>1, <2>2 DEF PaidInv, Claimed
<1>3. ASSUME NEW v \in Wallets, Claim(v)
      PROVE  PaidInv'
  <2>1. /\ paid' = [paid EXCEPT ![v] = Sum(earned, Mine(v))] /\ earned' = earned
        /\ claimants' = [k \in Keys |-> IF Owns(v, k) /\ earned[k] > 0 THEN claimants[k] \cup {v} ELSE claimants[k]]
    BY <1>3 DEF Claim, Cumulative, Sum, Mine, books
  <2>2. PICK after \in [Wallets -> SUBSET Keys] : \A w \in Wallets : after[w] = Claimed(w)'
    <3>1. [w \in Wallets |-> Claimed(w)'] \in [Wallets -> SUBSET Keys]
      BY DEF Claimed
    <3> QED
      BY <3>1
  <2>3. /\ Mine(v) \in SUBSET Keys
        /\ \A k \in Mine(v) : earned[k] > 0 => k \in after[v]
        /\ \A w \in Wallets : Claimed(w) \in SUBSET Keys /\ \A k \in Claimed(w) : k \in after[w]
    BY <2>1, <2>2 DEF Mine, Claimed
  <2>4. Sum(earned, Mine(v)) <= Sum(earned, after[v]) /\ Sum(earned, Mine(v)) \in Nat
    <3>1. after[v] \in SUBSET Keys
      OBVIOUS
    <3> QED
      BY <1>0, <2>3, <3>1, EarnersCount, EarnedSums
  <2>5. ASSUME NEW w \in Wallets PROVE paid[w] <= Sum(earned, after[w])
    <3>1. after[w] \in SUBSET Keys /\ Claimed(w) \in SUBSET Keys /\ \A k \in Claimed(w) : earned[k] > 0 => k \in after[w]
      BY <2>3
    <3>2. Sum(earned, Claimed(w)) <= Sum(earned, after[w]) /\ Sum(earned, Claimed(w)) \in Nat /\ Sum(earned, after[w]) \in Nat
      BY <1>0, <3>1, EarnersCount, EarnedSums
    <3> QED
      BY <3>2 DEF PaidInv
  <2>6. paid' \in [Wallets -> Nat] /\ \A w \in Wallets : paid'[w] <= Sum(earned, after[w])
    BY <2>1, <2>4, <2>5 DEF PaidInv
  <2> QED
    BY <2>1, <2>2, <2>6 DEF PaidInv
<1> QED
  <2>1. CASE Tick \/ (\E w \in Wallets : Stake(w) \/ CountWork(w) \/ Unstake(w)) \/ UNCHANGED vars
    BY <1>1, <2>1 DEF Tick, Stake, CountWork, Unstake, vars, books, chain, seen
  <2>2. CASE \E k \in Keys : LeaseUser(k) \/ LeaseGate(k) \/ LeaseGrant(k) \/ SubmitRead(k) \/ SubmitGate(k) \/ SubmitInsert(k)
    BY <1>1, <2>2 DEF LeaseUser, LeaseGate, LeaseGrant, SubmitRead, SubmitGate, SubmitInsert, chain, seen
  <2>3. CASE (\E c \in Chunks : LeaseExpires(c)) \/ \E r \in Results : Slash(r)
    BY <1>1, <2>3 DEF LeaseExpires, Slash, chain, seen
  <2> QED
    BY <1>2, <1>3, <2>1, <2>2, <2>3 DEF Next

\* Nothing is paid twice for the same work, as long as one wallet claims the
\* earnings of each key (routes.ts claims): what all wallets were paid is within
\* what all keys have earned.
THEOREM NothingPaidTwice == Spec => []PaidForWork
<1>1. Init => PaidInv
  <2> SUFFICES ASSUME Init PROVE PaidInv
    OBVIOUS
  <2>1. TypeOK
    BY IInvInit DEF IInv
  <2>2. \A w \in Wallets : paid[w] = 0 /\ Sum(earned, Claimed(w)) \in Nat
    <3>1. \A w \in Wallets : Claimed(w) \in SUBSET Keys
      BY DEF Claimed
    <3> QED
      BY <2>1, <3>1, EarnedSums DEF Init
  <2>3. paid \in [Wallets -> Nat]
    BY DEF Init
  <2> QED
    BY <2>2, <2>3 DEF PaidInv
<1>2. IInv /\ PaidInv => PaidForWork
  <2> SUFFICES ASSUME IInv, PaidInv, \A k \in Keys : \A v, w \in claimants[k] : v = w
               PROVE  Sum(paid, Wallets) <= Sum(earned, Keys)
    BY DEF PaidForWork, Sum
  <2> DEFINE c == [w \in Wallets |-> Sum(earned, Claimed(w))]
             p == [k \in Keys |-> IF claimants[k] = {} THEN NoWallet ELSE CHOOSE w \in claimants[k] : TRUE]
  <2>0. TypeOK /\ \A k \in Keys : earned[k] \in Nat
    BY DEF IInv, TypeOK
  <2>1. \A w \in Wallets : c[w] \in Nat /\ paid[w] \in Nat /\ paid[w] <= c[w]
    <3>1. \A w \in Wallets : Claimed(w) \in SUBSET Keys
      BY DEF Claimed
    <3> QED
      BY <2>0, <3>1, EarnedSums DEF PaidInv
  <2>2. ASSUME NEW w \in Wallets PROVE c[w] = Sum(earned, Group(Keys, p, w))
    <3>1. ASSUME NEW k \in Keys PROVE w \in claimants[k] <=> p[k] = w
      BY BondAssumption
    <3>2. Claimed(w) = Group(Keys, p, w)
      BY <3>1 DEF Claimed, Group
    <3> QED
      BY <3>2
  <2> HIDE DEF c, p
  <2>3. Sum(paid, Wallets) <= Sum(c, Wallets)
    <3>1. \A w \in Wallets : paid[w] \in Int /\ c[w] \in Int /\ paid[w] <= c[w]
      BY <2>1
    <3> QED
      BY <3>1, BondAssumption, SumMonotone
  <2>4. Sum(c, Wallets) <= Sum(earned, Keys)
    <3>1. IsFiniteSet(Keys) /\ IsFiniteSet(Wallets) /\ \A k \in Keys : earned[k] \in Nat
      BY <2>0, FiniteKeys, BondAssumption
    <3> QED
      BY <2>2, <3>1, SumByGroup
  <2>5. Sum(paid, Wallets) \in Nat /\ Sum(c, Wallets) \in Nat /\ Sum(earned, Keys) \in Nat
    BY <2>0, <2>1, FiniteKeys, BondAssumption, SumPart
  <2> QED
    BY <2>3, <2>4, <2>5
<1> QED
  BY <1>1, <1>2, IInvariance, PaidStep, PTL DEF Spec
=============================================================================
