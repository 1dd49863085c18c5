--------------------------- MODULE PostingProofs ---------------------------
(***************************************************************************)
(* The properties of a bounty's creation and funding, for any forms,       *)
(* wallets, batches, overlapping reports and failures.                     *)
(*                                                                         *)
(* Attempted is why the page's session is its wallet's.  Offered and       *)
(* Unfunded follow the amounts from the click to the escrow.  Reported     *)
(* bounds the reports under way.  Laid says what the chunks of a job are   *)
(* and are made from, Timely that none is worked before all are there, and *)
(* Completed that nothing is left when a job is closed.                    *)
(*                                                                         *)
(* The last part is about the modules that bounties are posted for; no     *)
(* history of the registry's caches leaves Registers.                      *)
(***************************************************************************)
EXTENDS BountyModules, Sums, SequenceTheorems, WellFoundedInduction, TLAPS

Someone == Wallets \cup {NoWallet}
Chunks  == Nat \X Nat
Funds   == [budget : Nat, price : Nat]
Rows    == [status : {"none", "draft", "open", "closed"}, creator : Someone, form : Forms,
            left : Seq(Chunks), phase : {"none", "asked", "rows", "created", "answered", "failed"}]

SignInOK ==
    /\ connected \in Someone /\ token \in Someone /\ stored \subseteq Wallets
    /\ attempt \in [Wallets -> [at : {"idle", "nonce", "verify", "delete", "store"}, nonce : Nat]]
    /\ nonce \in [Wallets -> Nat] /\ issued \in Nat /\ raced \in BOOLEAN

TypeOK ==
    /\ SignInOK
    /\ post \in [at : {"idle", "creating", "funding", "confirming"}, job : Jobs \cup {NoJob},
                 session : Someone, funder : Someone, fund : Funds]
    /\ job \in [Jobs -> Rows]
    /\ rows \in [Jobs -> SUBSET Chunks] /\ done \in [Jobs -> SUBSET Chunks]
    /\ escrow \in [Jobs -> [funder : Someone, budget : Nat, price : Nat]]
    /\ calls \in [Jobs -> [fetch : Nat, open : Nat]]
    /\ closing \in [Jobs -> {"no", "count", "close"}]
    /\ partial \subseteq Jobs /\ doubled \subseteq Jobs /\ lost \in BOOLEAN

\* Only the connected wallet signs in, until it changes during one.
Attempted == ~raced => \A w \in Wallets : attempt[w] # Idle => w = connected

\* A job is not there before it is asked for, and not before it is accepted.
Unborn(j) == job[j].phase \in {"none", "asked"}
Begun(j) ==
    IF Unborn(j)
    THEN /\ job[j].status = "none" /\ job[j].left = <<>>
         /\ rows[j] = {} /\ done[j] = {} /\ escrow[j] = NoEscrow
         /\ calls[j] = [fetch |-> 0, open |-> 0] /\ closing[j] = "no" /\ j \notin partial
         /\ (job[j].phase = "none" => job[j] = NoRow) /\ (job[j].phase = "asked" => job[j].creator # NoWallet)
    ELSE /\ job[j].status # "none" /\ job[j].creator # NoWallet /\ Accepted(job[j].form)

\* The page waits with the amounts of the job's form, for a job that is there
\* when it funds it; it signs as the creator, until a wallet is switched.
Pays(j) == post.at \in {"funding", "confirming"} /\ post.job = j
Offered ==
    post.at # "idle" =>
        /\ post.job \in Jobs
        /\ job[post.job].phase # "none"
        /\ post.at # "creating" => ~Unborn(post.job)
        /\ post.fund = PageFund(job[post.job].form)
        /\ ~raced => post.funder = job[post.job].creator

\* An escrow holds what its job asks for, until a wallet is switched.
Unfunded(j) == ~raced /\ escrow[j] # NoEscrow => Fits(escrow[j], job[j])

\* There is one report of a draft's funding, unless two overlapped.
Reported(j) ==
    j \notin doubled =>
        /\ calls[j].fetch + calls[j].open <= 1
        /\ calls[j].fetch + calls[j].open = 1 => job[j].status = "draft"

\* A job's chunks are those of its plan, and a lineage goes on after its last one.
Planned(f) ==
    IF f.kind = "training"
    THEN {<<TRAIN_G * q, TRAIN_G * q + TRAIN_G>> : q \in 0 .. (f.end \div TRAIN_G) * lineageCount(f) - 1}
    ELSE ToSet(FirstRows(f))

Laid(j) ==
    j \notin partial /\ ~Unborn(j) =>
        /\ done[j] \subseteq rows[j]
        /\ rows[j] \cup ToSet(job[j].left) \subseteq Planned(job[j].form)
        /\ ToSet(FirstRows(job[j].form)) \subseteq rows[j] \cup ToSet(job[j].left)
        /\ job[j].phase # "rows" => job[j].left = <<>>
        /\ \A r \in done[j] : Successors(job[j].form, r) \subseteq rows[j]

\* A job whose chunks are still being inserted is not worked on.
Timely(j) ==
    j \notin partial /\ job[j].phase = "rows" /\ Whole(job[j].form) =>
        /\ escrow[j] = NoEscrow /\ calls[j].open = 0 /\ ~Pays(j)
        /\ done[j] = {} /\ closing[j] = "no" /\ job[j].status = Status(job[j].form)
        /\ Status(job[j].form) = "open" => rows[j] = {} /\ job[j].left = FirstRows(job[j].form)

\* Nothing is left of a job that is closed, or about to be.
Completed(j) ==
    j \notin partial /\ Whole(job[j].form) /\ (closing[j] = "close" \/ job[j].status = "closed") =>
        rows[j] = done[j] /\ job[j].phase # "rows"

JobInv(j) == Begun(j) /\ Unfunded(j) /\ Reported(j) /\ Laid(j) /\ Timely(j) /\ Completed(j)

IInv ==
    /\ TypeOK /\ Attempted /\ TokenScoped /\ Offered
    /\ \A j \in Jobs : JobInv(j)
-----------------------------------------------------------------------------
(* The plan of a job, and its price.                                       *)

LEMMA FormFields ==
  ASSUME NEW f \in Forms
  PROVE  /\ f.kind \in {"coverage", "training", "prize"}
         /\ f.start \in Nat /\ f.end \in Nat /\ f.rate \in Nat
         /\ f.lineages \in Nat /\ f.price \in Nat /\ f.prize \in Nat
         /\ f.kind = "coverage" => f.rate > 0
         /\ f.kind = "training" => f.lineages \in 1..MAX_LINEAGES
BY FormsAssumption

LEMMA DivMod ==
  ASSUME NEW a \in Int, NEW b \in Nat, b > 0
  PROVE  \E c \in Int : a = b * c + (a % b) /\ a % b \in 0..(b - 1)
<1>1. a % b \in 0..(b - 1) /\ a = b * (a \div b) + (a % b)
  OBVIOUS
<1> QED
  BY <1>1

\* Division rounded up is enough, and not one too many.
LEMMA CeilDivBounds ==
  ASSUME NEW a \in Nat, NEW b \in Nat \ {0}
  PROVE  /\ CeilDiv(a, b) \in Nat
         /\ a <= CeilDiv(a, b) * b
         /\ CeilDiv(a, b) * b < a + b
         /\ a > 0 => CeilDiv(a, b) > 0
<1>1. a + b - 1 \in Nat
  OBVIOUS
<1>2. PICK n \in Int : n = a + b - 1
  OBVIOUS
<1>3. /\ n \div b \in Int /\ b * (n \div b) <= n /\ n < b * (n \div b) + b
  BY <1>1, <1>2
<1>4. PICK c \in Int : c = n \div b
  BY <1>3
<1>5. c * b <= n /\ n < c * b + b
  BY <1>3, <1>4
<1>6. c >= 0
  <2>1. CASE c < 0
    <3>1. c * b <= 0 - b
      BY <2>1
    <3> QED
      BY <3>1, <1>5, <1>2
  <2> QED
    BY <2>1
<1>7. a > 0 => c > 0
  BY <1>5, <1>6, <1>2
<1> QED
  BY <1>2, <1>4, <1>5, <1>6, <1>7 DEF CeilDiv

\* The chunk the form shows is the chunk the coordinator cuts.
LEMMA ChunkSize ==
  ASSUME NEW f \in Forms, f.kind = "coverage"
  PROVE  /\ deriveChunkSize(f.rate) \in Nat \ {0}
         /\ deriveChunkSize(f.rate) = CeilDiv(TARGET_SECONDS * f.rate, BUCKET) * BUCKET
<1>1. f.rate \in Nat \ {0}
  BY FormFields
<1>2. PICK n \in Nat \ {0} : n = TARGET_SECONDS * f.rate
  BY <1>1, PlanAssumption
<1>3. CeilDiv(n, BUCKET) \in Nat /\ CeilDiv(n, BUCKET) > 0
  BY PlanAssumption, CeilDivBounds
<1>4. PICK c \in Nat \ {0} : c = CeilDiv(n, BUCKET)
  BY <1>3
<1>5. c * BUCKET \in Nat \ {0}
  BY PlanAssumption
<1> QED
  BY <1>2, <1>4, <1>5 DEF deriveChunkSize

LEMMA Lineaged ==
  ASSUME NEW f \in Forms, f.kind = "training"
  PROVE  lineageCount(f) = f.lineages /\ lineageCount(f) \in Nat \ {0}
BY FormFields, PlanAssumption DEF lineageCount, Least

\* The page asks for the price of every chunk.
LEMMA BudgetIsPrice ==
  ASSUME NEW f \in Forms, Shaped(f), f.kind # "prize"
  PROVE  PageBudget(f) = f.price * chunkCount(f)
<1>1. CASE f.kind = "coverage"
  <2>1. formSpace(f) = f.end - f.start
    BY <1>1, FormFields DEF formSpace, Shaped
  <2> QED
    BY <1>1, <2>1, ChunkSize DEF PageBudget, chunkCount, chunkMath
<1>2. CASE f.kind = "training"
  BY <1>2, Lineaged DEF PageBudget, chunkCount
<1> QED
  BY <1>1, <1>2, FormFields

LEMMA FundType ==
  ASSUME NEW f \in Forms
  PROVE  PageFund(f) \in Funds
<1> USE FormFields
<1>1. PageBudget(f) \in Nat
  <2>1. CASE f.kind = "coverage"
    <3>1. PICK s \in Nat : s = formSpace(f)
      BY DEF formSpace
    <3>2. PICK z \in Nat \ {0} : z = CeilDiv(TARGET_SECONDS * f.rate, BUCKET) * BUCKET
      BY <2>1, ChunkSize
    <3>3. PICK n \in Nat : n = CeilDiv(s, z)
      BY CeilDivBounds
    <3>4. f.price * n \in Nat
      OBVIOUS
    <3> QED
      BY <2>1, <3>1, <3>2, <3>3, <3>4 DEF PageBudget, chunkMath
  <2>2. CASE f.kind = "training"
    <3>1. PICK n \in Nat : n = f.end \div TRAIN_G
      BY PlanAssumption
    <3>2. f.price * (n * f.lineages) \in Nat
      OBVIOUS
    <3> QED
      BY <2>2, <3>1, <3>2 DEF PageBudget
  <2>3. CASE f.kind = "prize"
    BY <2>3 DEF PageBudget
  <2> QED
    BY <2>1, <2>2, <2>3
<1> QED
  BY <1>1 DEF PageFund, Funds

\* A training job is whole steps of a generation's chunk, and of its lineages.
LEMMA Generations ==
  ASSUME NEW f \in Forms, f.kind = "training", Shaped(f)
  PROVE  \E m \in Nat \ {0} : f.end = TRAIN_G * m /\ f.end \div TRAIN_G = m
<1>1. /\ f.end \in Nat /\ TRAIN_G \in Nat \ {0}
      /\ f.end >= TRAIN_G /\ f.end % TRAIN_G = 0
  BY FormFields, PlanAssumption DEF Shaped
<1>2. PICK m \in Int : m = f.end \div TRAIN_G
  BY <1>1
<1>3. f.end = TRAIN_G * m
  BY <1>1, <1>2
<1>4. m > 0
  <2>1. CASE m <= 0
    <3>1. TRAIN_G * m <= 0
      BY <2>1, <1>1
    <3> QED
      BY <3>1, <1>1, <1>3
  <2> QED
    BY <2>1
<1> QED
  BY <1>2, <1>3, <1>4

\* A product grows with its factor, and by a whole step.
LEMMA Steps ==
  ASSUME NEW s \in Nat \ {0}, NEW k \in Int, NEW m \in Int, k < m
  PROVE  s * k + s <= s * m
<1>1. PICK d \in Nat : m = k + 1 + d
  BY m - k - 1 \in Nat, m = k + 1 + (m - k - 1)
<1>2. s * m = s * k + s + s * d /\ s * d \in Nat
  BY <1>1
<1> QED
  BY <1>2

\* A function on 1..n is a sequence.
LEMMA Sequenced ==
  ASSUME NEW S, NEW n \in Nat, NEW s \in [1..n -> S]
  PROVE  s \in Seq(S)
BY SeqDef, Zenon

LEMMA FirstRowsPlanned ==
  ASSUME NEW f \in Forms, Shaped(f)
  PROVE  FirstRows(f) \in Seq(Chunks) /\ ToSet(FirstRows(f)) \subseteq Planned(f)
<1> USE FormFields, PlanAssumption
<1>1. CASE f.kind = "coverage"
  <2>1. PICK s \in Nat \ {0} : s = deriveChunkSize(f.rate)
    BY <1>1, ChunkSize
  <2>2. PICK n \in Nat : n = chunkCount(f)
    <3>1. f.end - f.start \in Nat
      BY <1>1 DEF Shaped
    <3> QED
      BY <1>1, <2>1, <3>1, CeilDivBounds DEF chunkCount
  <2>3. \A k \in 1..n : <<f.start + (k - 1) * s, Least(f.start + k * s, f.end)>> \in Chunks
    <3>1. ASSUME NEW k \in 1..n PROVE (k - 1) * s \in Nat /\ k * s \in Nat
      BY k - 1 \in Nat, k \in Nat
    <3> QED
      BY <3>1 DEF Chunks, Least
  <2>4. Ranges(f) = [k \in 1..n |-> <<f.start + (k - 1) * s, Least(f.start + k * s, f.end)>>]
    BY <2>1, <2>2 DEF Ranges
  <2>5. Ranges(f) \in Seq(Chunks)
    <3>1. Ranges(f) \in [1..n -> Chunks]
      BY <2>3, <2>4
    <3> QED
      BY <3>1, Sequenced, Zenon
  <2> QED
    BY <1>1, <2>5 DEF FirstRows, Planned
<1>2. CASE f.kind = "training"
  <2>1. PICK m \in Nat \ {0} : f.end = TRAIN_G * m /\ f.end \div TRAIN_G = m
    BY <1>2, Generations
  <2>2. PICK n \in Nat \ {0} : n = lineageCount(f)
    BY <1>2, Lineaged
  <2>3. ASSUME NEW k \in 1..n
        PROVE  \E q \in 0..m * n - 1 : /\ q = (k - 1) * m
                                       /\ (k - 1) * f.end = TRAIN_G * q /\ TRAIN_G * q \in Nat
    <3>1. k - 1 \in Nat /\ k - 1 < n
      OBVIOUS
    <3>2. (k - 1) * m \in Nat /\ m * (k - 1) + m <= m * n
      BY <3>1, Steps
    <3>3. m * (k - 1) = (k - 1) * m /\ m * n \in Nat
      BY <3>1
    <3>4. (k - 1) * m \in 0..m * n - 1
      BY <3>2, <3>3
    <3>5. (k - 1) * f.end = TRAIN_G * ((k - 1) * m)
      BY <2>1, <3>1
    <3>6. TRAIN_G * ((k - 1) * m) \in Nat
      BY <3>2
    <3> QED
      BY <3>4, <3>5, <3>6
  <2>4. Lineages(f) = [k \in 1..n |-> <<(k - 1) * f.end, (k - 1) * f.end + TRAIN_G>>]
    BY <2>2 DEF Lineages
  <2>5. Planned(f) = {<<TRAIN_G * q, TRAIN_G * q + TRAIN_G>> : q \in 0 .. m * n - 1}
    BY <1>2, <2>1, <2>2 DEF Planned
  <2>6. \A k \in 1..n : /\ <<(k - 1) * f.end, (k - 1) * f.end + TRAIN_G>> \in Chunks
                        /\ <<(k - 1) * f.end, (k - 1) * f.end + TRAIN_G>> \in Planned(f)
    <3>1. SUFFICES ASSUME NEW k \in 1..n
                   PROVE  /\ <<(k - 1) * f.end, (k - 1) * f.end + TRAIN_G>> \in Chunks
                          /\ <<(k - 1) * f.end, (k - 1) * f.end + TRAIN_G>> \in Planned(f)
      OBVIOUS
    <3>2. PICK q \in 0..m * n - 1 : (k - 1) * f.end = TRAIN_G * q /\ TRAIN_G * q \in Nat
      BY <2>3
    <3>3. <<TRAIN_G * q, TRAIN_G * q + TRAIN_G>> \in Planned(f)
      BY <2>5
    <3>4. <<TRAIN_G * q, TRAIN_G * q + TRAIN_G>> \in Chunks
      BY <3>2 DEF Chunks
    <3> QED
      BY <3>2, <3>3, <3>4
  <2>7. Lineages(f) \in Seq(Chunks)
    <3>1. Lineages(f) \in [1..n -> Chunks]
      BY <2>4, <2>6
    <3> QED
      BY <3>1, Sequenced, Zenon
  <2>8. ToSet(Lineages(f)) \subseteq Planned(f)
    BY <2>4, <2>6 DEF ToSet
  <2> QED
    BY <1>2, <2>7, <2>8 DEF FirstRows
<1>3. CASE f.kind = "prize"
  BY <1>3 DEF FirstRows, Planned, ToSet
<1> QED
  BY <1>1, <1>2, <1>3

LEMMA SuccessorsType ==
  ASSUME NEW f \in Forms, NEW r \in Chunks
  PROVE  Successors(f, r) \subseteq Chunks
BY PlanAssumption DEF Successors, Chunks

\* A lineage's next chunk is one of the plan.
LEMMA SuccessorsPlanned ==
  ASSUME NEW f \in Forms, Shaped(f), NEW r \in Planned(f)
  PROVE  Successors(f, r) \subseteq Planned(f)
<1> USE FormFields, PlanAssumption
<1>1. CASE f.kind # "training"
  BY <1>1 DEF Successors
<1>2. CASE f.kind = "training" /\ r[2] % f.end # 0
  <2>1. PICK m \in Nat \ {0} : f.end = TRAIN_G * m /\ f.end \div TRAIN_G = m
    BY <1>2, Generations
  <2>2. PICK n \in Nat \ {0} : n = lineageCount(f)
    BY <1>2, Lineaged
  <2>3. PICK l \in Nat : l = m * n
    OBVIOUS
  <2>4. Planned(f) = {<<TRAIN_G * q, TRAIN_G * q + TRAIN_G>> : q \in 0 .. l - 1}
    BY <1>2, <2>1, <2>2, <2>3 DEF Planned
  <2>5. PICK q \in 0..l - 1 : r = <<TRAIN_G * q, TRAIN_G * q + TRAIN_G>>
    BY <2>4
  <2>6. r[2] = TRAIN_G * (q + 1)
    BY <2>5
  <2>7. q + 1 # l
    <3>1. CASE q + 1 = l
      <4>1. r[2] = f.end * n
        BY <3>1, <2>6, <2>3, <2>1
      <4>2. (f.end * n) % f.end = 0
        BY <2>1, f.end \in Nat \ {0}
      <4> QED
        BY <4>1, <4>2, <1>2
    <3> QED
      BY <3>1
  <2>8. q + 1 \in 0..l - 1
    BY <2>7
  <2>9. <<r[2], r[2] + TRAIN_G>> \in Planned(f)
    BY <2>4, <2>6, <2>8
  <2> QED
    BY <1>2, <2>9 DEF Successors
<1>3. CASE f.kind = "training" /\ ~(r[2] % f.end # 0)
  BY <1>3 DEF Successors
<1> QED
  BY <1>1, <1>2, <1>3

\* Some chunk of a coverage job has each of its seeds, and no other has it.
LEMMA RangesPartition ==
  ASSUME NEW f \in Forms, Shaped(f), f.kind = "coverage", NEW x \in f.start .. f.end - 1
  PROVE  \E r \in ToSet(Ranges(f)) :
            /\ x \in r[1] .. r[2] - 1
            /\ \A s \in ToSet(Ranges(f)) \ {r} : x \notin s[1] .. s[2] - 1
<1> USE FormFields
<1>1. PICK z \in Nat \ {0} : z = deriveChunkSize(f.rate)
  BY ChunkSize
<1>2. PICK w \in Nat : w = f.end - f.start
  BY DEF Shaped
<1>3. PICK n \in Nat : n = CeilDiv(w, z) /\ w <= n * z
  BY CeilDivBounds
<1>4. Ranges(f) = [k \in 1..n |-> <<f.start + (k - 1) * z, Least(f.start + k * z, f.end)>>]
  BY <1>1, <1>2, <1>3 DEF Ranges, chunkCount
<1>5. PICK d \in Nat : d = x - f.start /\ d < w
  BY <1>2
<1>6. PICK c \in Int : c = d \div z /\ z * c <= d /\ d < z * c + z
  OBVIOUS
<1>7. c >= 0 /\ c < n
  <2>1. CASE c < 0
    <3>1. z * c + z <= z * 0
      BY <2>1, Steps
    <3> QED
      BY <3>1, <1>6
  <2>2. CASE c >= n
    <3>1. CASE c = n
      BY <3>1, <1>3, <1>5, <1>6
    <3>2. CASE n < c
      <4>1. z * n + z <= z * c
        BY <3>2, Steps
      <4>2. n * z = z * n /\ z * n \in Nat /\ z * c \in Int
        OBVIOUS
      <4> QED
        BY <4>1, <4>2, <1>3, <1>5, <1>6
    <3> QED
      BY <2>2, <3>1, <3>2
  <2> QED
    BY <2>1, <2>2
<1>8. PICK k \in 1..n : k = c + 1
  BY <1>7
<1>9. x \in f.start + (k - 1) * z .. Least(f.start + k * z, f.end) - 1
  <2>1. (k - 1) * z = z * c /\ k * z = z * c + z /\ z * c \in Int
    BY <1>8
  <2> QED
    BY <2>1, <1>5, <1>6 DEF Least
<1>10. ASSUME NEW m \in 1..n, m # k
       PROVE  x \notin f.start + (m - 1) * z .. Least(f.start + m * z, f.end) - 1
  <2>1. /\ (m - 1) * z = z * m - z /\ m * z = z * m
        /\ (k - 1) * z = z * k - z /\ k * z = z * k
        /\ z * m \in Int /\ z * k \in Int
    OBVIOUS
  <2>2. CASE m < k
    BY <2>1, <2>2, <1>9, Steps DEF Least
  <2>3. CASE k < m
    BY <2>1, <2>3, <1>9, Steps DEF Least
  <2> QED
    BY <1>10, <2>2, <2>3
<1>11. Ranges(f)[k] \in ToSet(Ranges(f))
  BY <1>4 DEF ToSet
<1>12. Ranges(f)[k] = <<f.start + (k - 1) * z, Least(f.start + k * z, f.end)>>
  BY <1>4
<1>13. ASSUME NEW s \in ToSet(Ranges(f)), s # Ranges(f)[k]
       PROVE  x \notin s[1] .. s[2] - 1
  <2>1. PICK m \in 1..n : s = Ranges(f)[m]
    BY <1>4 DEF ToSet
  <2>2. m # k
    BY <2>1, <1>13
  <2>3. s = <<f.start + (m - 1) * z, Least(f.start + m * z, f.end)>>
    BY <2>1, <1>4
  <2> QED
    BY <2>2, <2>3, <1>10
<1> QED
  BY <1>9, <1>11, <1>12, <1>13

\* The plan of a lineage covers each generation once, and is all there as soon
\* as the first chunks are and every chunk's successor is.
LEMMA LineagesPartition ==
  ASSUME NEW f \in Forms, Shaped(f), f.kind = "training",
         NEW S, S \subseteq Planned(f), ToSet(Lineages(f)) \subseteq S,
         \A r \in S : Successors(f, r) \subseteq S,
         NEW x \in 0 .. lineageCount(f) * f.end - 1
  PROVE  \E r \in S : /\ x \in r[1] .. r[2] - 1
                      /\ \A s \in S \ {r} : x \notin s[1] .. s[2] - 1
<1> USE FormFields, PlanAssumption
<1>1. PICK m \in Nat \ {0} : f.end = TRAIN_G * m /\ f.end \div TRAIN_G = m
  BY Generations
<1>2. PICK n \in Nat \ {0} : n = lineageCount(f)
  BY Lineaged
<1>3. PICK l \in Nat : l = m * n
  OBVIOUS
<1> DEFINE R(q) == <<TRAIN_G * q, TRAIN_G * q + TRAIN_G>>
<1>4. Planned(f) = {R(q) : q \in 0 .. l - 1}
  BY <1>1, <1>2, <1>3 DEF Planned
<1>5. ASSUME NEW q \in 0..l - 1, \A p \in 0..q - 1 : R(p) \in S
      PROVE  R(q) \in S
  <2>1. PICK k \in Int : q = m * k + (q % m) /\ q % m \in 0..(m - 1)
    <3>1. q \in Int /\ m \in Nat /\ m > 0
      OBVIOUS
    <3> QED
      BY <3>1, DivMod, Zenon
  <2>2. k >= 0 /\ k < n
    <3>1. CASE k < 0
      <4>1. m * k + m <= m * 0
        BY <3>1, Steps
      <4> QED
        BY <4>1, <2>1
    <3>2. CASE k >= n
      <4>1. m * k >= m * n
        BY <3>2, Steps, m * k \in Int, m * n \in Int
      <4> QED
        BY <4>1, <2>1, <1>3
    <3> QED
      BY <3>1, <3>2
  <2>3. CASE q % m = 0
    <3>1. k + 1 \in 1..n
      BY <2>2
    <3>2. (k + 1 - 1) * f.end = TRAIN_G * q
      BY <2>1, <2>3, <1>1, <2>2
    <3>3. Lineages(f) = [i \in 1..n |-> <<(i - 1) * f.end, (i - 1) * f.end + TRAIN_G>>]
      BY <1>2 DEF Lineages
    <3>4. Lineages(f)[k + 1] = R(q)
      BY <3>1, <3>2, <3>3
    <3>5. Lineages(f)[k + 1] \in ToSet(Lineages(f))
      BY <3>1, <3>3 DEF ToSet
    <3> QED
      BY <3>4, <3>5
  <2>4. CASE q % m # 0
    <3>1. q - 1 \in 0..q - 1
      BY <2>4, q # 0
    <3>2. R(q - 1) \in S
      BY <3>1, <1>5
    <3>3. TRAIN_G * (q - 1) + TRAIN_G = TRAIN_G * q
      OBVIOUS
    <3>4. R(q - 1)[2] = TRAIN_G * q
      BY <3>3
    <3>5. (TRAIN_G * q) % f.end # 0
      <4>1. SUFFICES ASSUME (TRAIN_G * q) % f.end = 0 PROVE FALSE
        OBVIOUS
      <4>2. f.end \in Nat \ {0} /\ TRAIN_G * q \in Nat
        BY <1>1
      <4>3. PICK d \in Int : d = (TRAIN_G * q) \div f.end
        BY <4>2
      <4>4. TRAIN_G * q = f.end * d
        BY <4>1, <4>2, <4>3
      <4>5. TRAIN_G * q = TRAIN_G * (m * d) /\ m * d \in Int
        BY <4>4, <1>1
      <4>6. q = m * d
        <5>1. CASE q < m * d
          BY <5>1, <4>5, Steps
        <5>2. CASE m * d < q
          BY <5>2, <4>5, Steps
        <5> QED
          BY <5>1, <5>2, <4>5
      <4>7. q % m = 0
        BY <4>6
      <4> QED
        BY <4>7, <2>4
    <3>6. <<TRAIN_G * q, TRAIN_G * q + TRAIN_G>> \in Successors(f, R(q - 1))
      BY <3>4, <3>5 DEF Successors
    <3> QED
      BY <3>2, <3>6
  <2> QED
    BY <2>3, <2>4
<1>6. \A q \in 0..l - 1 : R(q) \in S
  <2> DEFINE Missing == {q \in Nat : q \in 0..l - 1 /\ R(q) \notin S}
  <2>1. CASE Missing = {}
    <3>1. ASSUME NEW q \in 0..l - 1 PROVE R(q) \in S
      <4>1. q \notin Missing
        BY <2>1, Zenon
      <4>2. q \in Nat
        OBVIOUS
      <4> QED
        BY <4>1, <4>2
    <3> QED
      BY <3>1
  <2>2. CASE Missing # {}
    <3>1. PICK q \in Missing : \A p \in Missing : ~(p < q)
      <4>1. PICK q \in Missing : \A p \in Missing : ~(<<p, q>> \in OpToRel(<, Nat))
        BY <2>2, NatLessThanWellFounded, WFMin, Zenon
      <4> QED
        BY <4>1 DEF OpToRel
    <3>2. ASSUME NEW p \in 0..q - 1 PROVE R(p) \in S
      <4>1. p \in Nat /\ p < q /\ p \in 0..l - 1
        BY <3>1
      <4>2. p \notin Missing
        BY <3>1, <4>1
      <4> QED
        BY <4>1, <4>2
    <3>3. q \in 0..l - 1 /\ R(q) \notin S
      BY <3>1
    <3> QED
      BY <3>2, <3>3, <1>5
  <2> QED
    BY <2>1, <2>2
<1>7. lineageCount(f) * f.end = TRAIN_G * l
  BY <1>1, <1>2, <1>3
<1>8. x \in Nat /\ x < TRAIN_G * l
  BY <1>7, TRAIN_G * l \in Nat
<1>9. PICK q \in Int : q = x \div TRAIN_G /\ TRAIN_G * q <= x /\ x < TRAIN_G * q + TRAIN_G
  BY <1>8
<1>10. q \in 0..l - 1
  <2>1. CASE q < 0
    <3>1. TRAIN_G * q + TRAIN_G <= TRAIN_G * 0
      BY <2>1, Steps
    <3> QED
      BY <3>1, <1>8, <1>9
  <2>2. CASE l <= q
    <3>1. TRAIN_G * l <= TRAIN_G * q
      BY <2>2, Steps, TRAIN_G * l \in Nat, TRAIN_G * q \in Int
    <3> QED
      BY <3>1, <1>8, <1>9, TRAIN_G * l \in Nat, TRAIN_G * q \in Int
  <2> QED
    BY <2>1, <2>2
<1>11. R(q) \in S /\ x \in R(q)[1] .. R(q)[2] - 1
  BY <1>6, <1>8, <1>9, <1>10, TRAIN_G * q \in Int
<1>12. ASSUME NEW s \in S, s # R(q)
       PROVE  x \notin s[1] .. s[2] - 1
  <2>1. PICK p \in 0..l - 1 : s = R(p)
    BY <1>4
  <2>2. TRAIN_G * p \in Int /\ TRAIN_G * q \in Int /\ p # q
    BY <2>1, <1>12
  <2>3. CASE p < q
    BY <2>1, <2>2, <2>3, <1>9, Steps
  <2>4. CASE q < p
    BY <2>1, <2>2, <2>4, <1>9, Steps
  <2> QED
    BY <2>2, <2>3, <2>4
<1> QED
  BY <1>11, <1>12

\* A job whose chunks are all there has each seed or generation in one of them.
LEMMA PlanCovers ==
  ASSUME NEW f \in Forms, Shaped(f),
         NEW S, S \subseteq Planned(f), ToSet(FirstRows(f)) \subseteq S,
         \A r \in S : Successors(f, r) \subseteq S
  PROVE  \A x \in Space(f) : \E r \in S : /\ x \in r[1] .. r[2] - 1
                                          /\ \A s \in S \ {r} : x \notin s[1] .. s[2] - 1
<1>1. CASE f.kind = "coverage"
  <2>1. S = ToSet(Ranges(f)) /\ Space(f) = f.start .. f.end - 1
    BY <1>1 DEF Planned, FirstRows, Space
  <2> QED
    BY <1>1, <2>1, RangesPartition
<1>2. CASE f.kind = "training"
  <2>1. ToSet(Lineages(f)) \subseteq S /\ Space(f) = 0 .. lineageCount(f) * f.end - 1
    BY <1>2 DEF FirstRows, Space
  <2> QED
    BY <1>2, <2>1, LineagesPartition
<1>3. CASE f.kind = "prize"
  BY <1>3 DEF Space
<1> QED
  BY <1>1, <1>2, <1>3, FormFields

-----------------------------------------------------------------------------
(* Types.                                                                  *)

LEMMA Defaults ==
  /\ NoRow \in Rows /\ NoRow.phase = "none" /\ NoRow.status = "none"
  /\ NoRow.creator = NoWallet /\ NoRow.left = <<>> /\ NoRow.form \in Forms
  /\ NoPost \in [at : {"idle", "creating", "funding", "confirming"}, job : Jobs \cup {NoJob},
                 session : Someone, funder : Someone, fund : Funds]
  /\ NoPost.at = "idle"
  /\ NoEscrow \in [funder : Someone, budget : Nat, price : Nat]
  /\ NoEscrow.funder = NoWallet
<1>1. NoRow.form \in Forms
  BY FormsAssumption DEF NoRow
<1>2. <<>> \in Seq(Chunks)
  OBVIOUS
<1> QED
  BY <1>1, <1>2 DEF NoRow, NoPost, NoEscrow, Rows, Someone, Funds

LEMMA StatusType ==
  \A f \in Forms : Status(f) \in {"draft", "open"}
BY DEF Status

LEMMA SignInType ==
  ASSUME SignInOK, SignInNext
  PROVE  SignInOK'
<1> USE SignInAssumption DEF SignInOK, Someone
<1>1. CASE StartSignIn
  BY <1>1 DEF StartSignIn, At
<1>2. CASE SignOut
  BY <1>2 DEF SignOut
<1>3. ASSUME NEW w \in Wallets, Connect(w) PROVE SignInOK'
  BY <1>3 DEF Connect
<1>4. ASSUME NEW w \in Wallets, IssueNonce(w) PROVE SignInOK'
  <2>1. issued' \in Nat /\ issued' = issued + 1 /\ nonce' \in [Wallets -> Nat]
    BY <1>4 DEF IssueNonce
  <2>2. PICK to \in {Idle, [at |-> "verify", nonce |-> issued']} : At(w, "nonce", to)
    BY <1>4 DEF IssueNonce
  <2>3. to \in [at : {"idle", "nonce", "verify", "delete", "store"}, nonce : Nat]
    BY <2>1 DEF Idle
  <2>4. attempt' \in [Wallets -> [at : {"idle", "nonce", "verify", "delete", "store"}, nonce : Nat]]
    BY <2>2, <2>3 DEF At
  <2> QED
    BY <1>4, <2>1, <2>4 DEF IssueNonce
<1>5. ASSUME NEW w \in Wallets, NonceExpires(w) PROVE SignInOK'
  BY <1>5 DEF NonceExpires
<1>6. ASSUME NEW w \in Wallets, CheckNonce(w) PROVE SignInOK'
  BY <1>6 DEF CheckNonce, At, Idle
<1>7. ASSUME NEW w \in Wallets, DeleteNonce(w) PROVE SignInOK'
  BY <1>7 DEF DeleteNonce, At
<1>8. ASSUME NEW w \in Wallets, StoreSession(w) PROVE SignInOK'
  BY <1>8 DEF StoreSession, At, Idle
<1> QED
  BY <1>1, <1>2, <1>3, <1>4, <1>5, <1>6, <1>7, <1>8 DEF SignInNext

\* A batch and what is left after it are the chunks there were.
LEMMA Splits ==
  ASSUME NEW S, NEW s \in Seq(S), NEW n \in 0..Len(s)
  PROVE  /\ SubSeq(s, 1, n) \in Seq(S) /\ SubSeq(s, n + 1, Len(s)) \in Seq(S)
         /\ ToSet(SubSeq(s, 1, n)) \cup ToSet(SubSeq(s, n + 1, Len(s))) = ToSet(s)
         /\ ToSet(s) \subseteq S
         /\ n = Len(s) => SubSeq(s, n + 1, Len(s)) = <<>>
<1>0. Len(s) \in Nat /\ DOMAIN s = 1..Len(s) /\ \A i \in 1..Len(s) : s[i] \in S
  OBVIOUS
<1>1. /\ SubSeq(s, 1, n) \in Seq(S) /\ Len(SubSeq(s, 1, n)) = n
      /\ \A i \in 1..n : SubSeq(s, 1, n)[i] = s[i]
  BY <1>0
<1>2. /\ SubSeq(s, n + 1, Len(s)) \in Seq(S) /\ Len(SubSeq(s, n + 1, Len(s))) = Len(s) - n
      /\ \A i \in 1..Len(s) - n : SubSeq(s, n + 1, Len(s))[i] = s[n + i]
  <2>1. SubSeq(s, n + 1, Len(s)) \in Seq(S)
    BY <1>0
  <2>2. Len(SubSeq(s, n + 1, Len(s))) = Len(s) - n
    <3>1. \A i \in n + 1 .. Len(s) : s[i] \in S
      BY <1>0
    <3>2. Len(SubSeq(s, n + 1, Len(s))) = IF n + 1 <= Len(s) THEN Len(s) - (n + 1) + 1 ELSE 0
      BY <1>0, <3>1, SubSeqProperties
    <3>3. PICK l \in Nat : l = Len(s) /\ n \in 0..l
      BY <1>0
    <3>4. (IF n + 1 <= l THEN l - (n + 1) + 1 ELSE 0) = l - n
      BY <3>3
    <3> QED
      BY <3>2, <3>3, <3>4
  <2>3. ASSUME NEW i \in 1..Len(s) - n PROVE SubSeq(s, n + 1, Len(s))[i] = s[n + i]
    BY <1>0
  <2> QED
    BY <2>1, <2>2, <2>3
<1>3. DOMAIN SubSeq(s, 1, n) = 1..n /\ DOMAIN SubSeq(s, n + 1, Len(s)) = 1..Len(s) - n
  BY <1>1, <1>2
<1>4. ToSet(SubSeq(s, 1, n)) \cup ToSet(SubSeq(s, n + 1, Len(s))) \subseteq ToSet(s)
  <2>1. ASSUME NEW i \in 1..n PROVE SubSeq(s, 1, n)[i] \in ToSet(s)
    BY <1>0, <1>1 DEF ToSet
  <2>2. ASSUME NEW i \in 1..Len(s) - n PROVE SubSeq(s, n + 1, Len(s))[i] \in ToSet(s)
    <3>1. n + i \in 1..Len(s)
      BY <1>0
    <3> QED
      BY <1>0, <1>2, <3>1 DEF ToSet
  <2> QED
    BY <1>3, <2>1, <2>2 DEF ToSet
<1>5. ASSUME NEW i \in 1..Len(s)
      PROVE  s[i] \in ToSet(SubSeq(s, 1, n)) \cup ToSet(SubSeq(s, n + 1, Len(s)))
  <2>1. CASE i <= n
    <3>1. i \in 1..n /\ SubSeq(s, 1, n)[i] = s[i]
      BY <2>1, <1>1
    <3> QED
      BY <3>1, <1>3 DEF ToSet
  <2>2. CASE n < i
    <3>1. i - n \in 1..Len(s) - n /\ n + (i - n) = i
      BY <2>2, <1>0
    <3>2. SubSeq(s, n + 1, Len(s))[i - n] = s[i]
      BY <3>1, <1>2
    <3> QED
      BY <3>1, <3>2, <1>3 DEF ToSet
  <2> QED
    BY <2>1, <2>2
<1>6. ToSet(s) \subseteq ToSet(SubSeq(s, 1, n)) \cup ToSet(SubSeq(s, n + 1, Len(s)))
  BY <1>0, <1>5 DEF ToSet
<1>7. n = Len(s) => SubSeq(s, n + 1, Len(s)) = <<>>
  BY <1>0
<1>8. ToSet(s) \subseteq S
  BY <1>0 DEF ToSet
<1> QED
  BY <1>1, <1>2, <1>4, <1>6, <1>7, <1>8

\* An insert takes a batch, or all that is left.
LEMMA BatchTaken ==
  ASSUME NEW f \in Forms, NEW s \in Seq(Chunks)
  PROVE  /\ Least(Batch(f), Len(s)) \in 0..Len(s)
         /\ Len(s) <= Batch(f) => Least(Batch(f), Len(s)) = Len(s)
<1>1. Batch(f) \in Nat \ {0} /\ Len(s) \in Nat
  BY PostingAssumption DEF Batch
<1> QED
  BY <1>1 DEF Least

LEMMA JobFields ==
  ASSUME TypeOK, NEW j \in Jobs
  PROVE  /\ job[j] \in Rows
         /\ job[j].form \in Forms /\ job[j].left \in Seq(Chunks) /\ job[j].creator \in Someone
         /\ escrow[j] \in [funder : Someone, budget : Nat, price : Nat]
         /\ calls[j].fetch \in Nat /\ calls[j].open \in Nat
         /\ calls[j] = [fetch |-> calls[j].fetch, open |-> calls[j].open]
         /\ rows[j] \subseteq Chunks /\ done[j] \subseteq rows[j] \cup Chunks
<1>1. job[j] \in Rows
  BY DEF TypeOK
<1> QED
  BY <1>1 DEF TypeOK, Rows

LEMMA TypeStep ==
  ASSUME TypeOK, Next
  PROVE  TypeOK'
<1> USE DEF TypeOK
<1>1. CASE SignInNext /\ UNCHANGED <<post, server, escrow, calls, history>>
  BY <1>1, SignInType DEF server, history
<1>2. CASE PageGone
  BY <1>2, Defaults DEF PageGone, signIn, server, SignInOK
<1> SUFFICES ASSUME NEW j \in Jobs,
                    \/ \E f \in Forms : PostClick(j, f)
                    \/ CreateJob(j) \/ InsertRows(j) \/ CreateFails(j) \/ CreateAnswered(j)
                    \/ FundClick(j) \/ FundEscrow(j) \/ Report(j) \/ ReportAgain(j)
                    \/ FundedCheck(j) \/ FundedOpen(j)
                    \/ ChunkDone(j) \/ CountInFlight(j) \/ CloseJob(j) \/ Reclaim(j)
             PROVE  TypeOK'
  BY <1>1, <1>2 DEF Next
<1> USE DEF signIn, server, history
<1>0. /\ job[j] \in Rows /\ job[j].form \in Forms /\ job[j].left \in Seq(Chunks)
      /\ connected \in Someone /\ token \in Someone
  BY JobFields DEF SignInOK
<1>3. ASSUME NEW f \in Forms, PostClick(j, f) PROVE TypeOK'
  <2>1. post' \in [at : {"idle", "creating", "funding", "confirming"}, job : Jobs \cup {NoJob},
                   session : Someone, funder : Someone, fund : Funds]
    BY <1>0, <1>3, FundType DEF PostClick
  <2>2. job' \in [Jobs -> Rows]
    BY <1>0, <1>3 DEF PostClick, Rows
  <2> QED
    BY <1>3, <2>1, <2>2 DEF PostClick, SignInOK
<1>4. CASE CreateJob(j)
  <2>1. CASE Accepted(job[j].form)
    <3>1. FirstRows(job[j].form) \in Seq(Chunks) /\ Status(job[j].form) \in {"draft", "open"}
      BY <1>0, <2>1, FirstRowsPlanned, StatusType DEF Accepted
    <3>2. [job[j] EXCEPT !.status = Status(job[j].form), !.left = FirstRows(job[j].form), !.phase = "rows"] \in Rows
      BY <1>0, <3>1 DEF Rows
    <3>3. job' = [job EXCEPT ![j] = [job[j] EXCEPT !.status = Status(job[j].form),
                                                   !.left = FirstRows(job[j].form), !.phase = "rows"]]
      BY <1>4, <2>1 DEF CreateJob
    <3>4. job' \in [Jobs -> Rows]
      BY <3>2, <3>3
    <3> QED
      BY <1>4, <2>1, <3>4 DEF CreateJob, SignInOK
  <2>2. CASE ~Accepted(job[j].form)
    BY <1>4, <2>2, Defaults DEF CreateJob, SignInOK
  <2> QED
    BY <2>1, <2>2
<1>5. CASE InsertRows(j)
  <2>1. PICK n \in 0..Len(job[j].left) : n = Least(Batch(job[j].form), Len(job[j].left))
    BY <1>0, BatchTaken
  <2>2. /\ SubSeq(job[j].left, n + 1, Len(job[j].left)) \in Seq(Chunks)
        /\ ToSet(SubSeq(job[j].left, 1, n)) \subseteq Chunks
    BY <1>0, Splits
  <2>3. job' \in [Jobs -> Rows]
    BY <1>0, <1>5, <2>1, <2>2 DEF InsertRows, Rows
  <2>4. rows' \in [Jobs -> SUBSET Chunks]
    BY <1>5, <2>1, <2>2 DEF InsertRows
  <2> QED
    BY <1>5, <2>3, <2>4 DEF InsertRows, SignInOK
<1>6. CASE CreateFails(j)
  <2>1. <<>> \in Seq(Chunks)
    OBVIOUS
  <2>2. job' \in [Jobs -> Rows]
    BY <1>0, <1>6, <2>1 DEF CreateFails, Rows
  <2> QED
    BY <1>6, <2>2 DEF CreateFails, SignInOK
<1>7. CASE CreateAnswered(j)
  <2>1. job' \in [Jobs -> Rows]
    BY <1>0, <1>7 DEF CreateAnswered, Rows
  <2> QED
    BY <1>7, <2>1, Defaults DEF CreateAnswered, SignInOK
<1>8. CASE FundClick(j)
  BY <1>0, <1>8, FundType DEF FundClick, SignInOK
<1>9. CASE FundEscrow(j)
  BY <1>9 DEF FundEscrow, SignInOK, Funds
<1>10. CASE Report(j)
  <2>1. calls' \in [Jobs -> [fetch : Nat, open : Nat]] /\ doubled' \subseteq Jobs
    <3>1. CASE FundedRead(j, post.session)
      <4>1. Call(j)
        BY <1>10, <3>1 DEF Report
      <4>2. calls' \in [Jobs -> [fetch : Nat, open : Nat]]
        BY <4>1 DEF Call
      <4>3. doubled' \subseteq Jobs
        BY <4>1 DEF Call
      <4> QED
        BY <4>2, <4>3
    <3>2. CASE ~FundedRead(j, post.session)
      BY <1>10, <3>2 DEF Report
    <3> QED
      BY <3>1, <3>2
  <2>2. post' = NoPost
    BY <1>10 DEF Report
  <2> QED
    BY <1>10, <2>1, <2>2, Defaults DEF Report, SignInOK
<1>11. CASE ReportAgain(j)
  BY <1>11 DEF ReportAgain, Call, SignInOK
<1>12. CASE FundedCheck(j)
  BY <1>12 DEF FundedCheck, SignInOK
<1>13. CASE FundedOpen(j)
  <2>1. job' \in [Jobs -> Rows]
    BY <1>0, <1>13 DEF FundedOpen, Rows
  <2>2. calls' \in [Jobs -> [fetch : Nat, open : Nat]]
    BY <1>13 DEF FundedOpen
  <2> QED
    BY <1>13, <2>1, <2>2 DEF FundedOpen, SignInOK
<1>14. CASE ChunkDone(j)
  <2>1. PICK r \in rows[j] \ done[j] :
          /\ done' = [done EXCEPT ![j] = @ \cup {r}]
          /\ rows' = [rows EXCEPT ![j] = @ \cup Successors(job[j].form, r)]
    BY <1>14 DEF ChunkDone
  <2>2. r \in Chunks /\ Successors(job[j].form, r) \subseteq Chunks
    BY <1>0, SuccessorsType
  <2> QED
    BY <1>14, <2>1, <2>2 DEF ChunkDone, SignInOK
<1>15. CASE CountInFlight(j)
  BY <1>15 DEF CountInFlight, SignInOK
<1>16. CASE CloseJob(j)
  BY <1>0, <1>16 DEF CloseJob, SignInOK, Rows
<1>17. CASE Reclaim(j)
  BY <1>17, Defaults DEF Reclaim, SignInOK
<1> QED
  BY <1>3, <1>4, <1>5, <1>6, <1>7, <1>8, <1>9, <1>10, <1>11, <1>12, <1>13, <1>14, <1>15, <1>16, <1>17

-----------------------------------------------------------------------------
(* The session, and what the page captured at the click.                   *)

LEMMA SignInStep ==
  ASSUME SignInOK, Attempted, TokenScoped, SignInNext
  PROVE  Attempted' /\ TokenScoped' /\ (raced => raced')
<1> USE SignInAssumption DEF SignInOK, Someone, Attempted, TokenScoped
<1>1. CASE StartSignIn
  BY <1>1 DEF StartSignIn, At
<1>2. CASE SignOut
  BY <1>2 DEF SignOut
<1>3. ASSUME NEW w \in Wallets, Connect(w) PROVE Attempted' /\ TokenScoped' /\ (raced => raced')
  BY <1>3 DEF Connect
<1>4. ASSUME NEW w \in Wallets, IssueNonce(w) PROVE Attempted' /\ TokenScoped' /\ (raced => raced')
  BY <1>4 DEF IssueNonce, At, Idle
<1>5. ASSUME NEW w \in Wallets, NonceExpires(w) PROVE Attempted' /\ TokenScoped' /\ (raced => raced')
  BY <1>5 DEF NonceExpires
<1>6. ASSUME NEW w \in Wallets, CheckNonce(w) PROVE Attempted' /\ TokenScoped' /\ (raced => raced')
  BY <1>6 DEF CheckNonce, At, Idle
<1>7. ASSUME NEW w \in Wallets, DeleteNonce(w) PROVE Attempted' /\ TokenScoped' /\ (raced => raced')
  BY <1>7 DEF DeleteNonce, At, Idle
<1>8. ASSUME NEW w \in Wallets, StoreSession(w) PROVE Attempted' /\ TokenScoped' /\ (raced => raced')
  BY <1>8 DEF StoreSession, At, Idle
<1> QED
  BY <1>1, <1>2, <1>3, <1>4, <1>5, <1>6, <1>7, <1>8 DEF SignInNext

\* Nothing but a step of the sign-in touches it.
LEMMA SessionStep ==
  ASSUME TypeOK, Attempted, TokenScoped, Next
  PROVE  Attempted' /\ TokenScoped' /\ (raced => raced')
<1>1. CASE SignInNext
  BY <1>1, SignInStep DEF TypeOK
<1>2. CASE UNCHANGED signIn
  BY <1>2 DEF signIn, Attempted, TokenScoped
<1> QED
  BY <1>1, <1>2 DEF Next, PageGone, PostClick, CreateJob, InsertRows, CreateFails, CreateAnswered, FundClick,
     FundEscrow, Report, ReportAgain, FundedCheck, FundedOpen, ChunkDone, CountInFlight, CloseJob, Reclaim

\* The job's row changes its form and its creator with the click alone, or is given up.
LEMMA OfferedStep ==
  ASSUME IInv, Next
  PROVE  Offered'
<1> USE DEF IInv
<1>0. TypeOK' /\ (raced => raced')
  BY TypeStep, SessionStep
<1>1. CASE UNCHANGED <<post, job>>
  BY <1>0, <1>1 DEF Offered, Unborn
<1>2. CASE post' = NoPost
  BY <1>2, Defaults DEF Offered
<1> SUFFICES ASSUME NEW j \in Jobs,
                    \/ \E f \in Forms : PostClick(j, f)
                    \/ CreateJob(j) \/ InsertRows(j) \/ CreateFails(j) \/ CreateAnswered(j)
                    \/ FundClick(j) \/ FundEscrow(j)
                    \/ FundedOpen(j) \/ CloseJob(j)
             PROVE  Offered'
  BY <1>1, <1>2 DEF Next, PageGone, Report, ReportAgain, FundedCheck, ChunkDone, CountInFlight, Reclaim, server
<1> USE DEF signIn, server, history
<1>3. job[j] \in Rows /\ JobInv(j) /\ job \in [Jobs -> Rows]
  BY JobFields DEF TypeOK
<1>4. CASE \E f \in Forms : PostClick(j, f)
  <2>1. PICK f \in Forms : PostClick(j, f)
    BY <1>4
  <2>2. job'[j].form = f /\ job'[j].creator = token /\ job'[j].phase = "asked"
    BY <1>3, <2>1 DEF PostClick, Rows
  <2>3. ~raced => token = connected
    BY <2>1 DEF PostClick, TokenScoped
  <2> QED
    BY <2>1, <2>2, <2>3 DEF PostClick, Offered
<1>5. ASSUME UNCHANGED post,
             \A i \in Jobs : /\ job'[i].form = job[i].form /\ job'[i].creator = job[i].creator
                             /\ job[i].phase # "none" => job'[i].phase # "none"
                             /\ ~Unborn(i) => ~Unborn(i)'
      PROVE  Offered'
  BY <1>0, <1>5 DEF Offered
<1>6. CASE CreateJob(j) /\ Accepted(job[j].form)
  <2>1. \A i \in Jobs : /\ job'[i].form = job[i].form /\ job'[i].creator = job[i].creator
                        /\ job[i].phase # "none" => job'[i].phase # "none"
                        /\ ~Unborn(i) => ~Unborn(i)'
    BY <1>3, <1>6 DEF CreateJob, Rows, Unborn
  <2> QED
    BY <1>5, <1>6, <2>1 DEF CreateJob
<1>7. CASE CreateJob(j) /\ ~Accepted(job[j].form)
  <2>1. CASE post.job = j /\ post.at # "idle"
    <3>1. Awaits(j)
      BY <1>7, <2>1, <1>0 DEF CreateJob, Offered, Unborn, Awaits, TypeOK
    <3> QED
      BY <1>7, <3>1, <1>2 DEF CreateJob
  <2>2. CASE ~(post.job = j /\ post.at # "idle")
    <3>1. UNCHANGED <<post, raced>> /\ job' = [job EXCEPT ![j] = NoRow]
      BY <1>7, <2>2 DEF CreateJob, Awaits
    <3>2. CASE post.at # "idle"
      <4>1. post.job \in Jobs /\ post.job # j
        BY <2>2, <3>2 DEF Offered
      <4>2. job'[post.job] = job[post.job]
        BY <3>1, <4>1, <1>3
      <4> QED
        BY <3>1, <4>1, <4>2 DEF Offered, Unborn
    <3>3. CASE post.at = "idle"
      BY <3>1, <3>3 DEF Offered
    <3> QED
      BY <3>2, <3>3
  <2> QED
    BY <2>1, <2>2
<1>8. CASE InsertRows(j) \/ CreateFails(j) \/ FundedOpen(j) \/ CloseJob(j)
  <2>1. \A i \in Jobs : /\ job'[i].form = job[i].form /\ job'[i].creator = job[i].creator
                        /\ job[i].phase # "none" => job'[i].phase # "none"
                        /\ ~Unborn(i) => ~Unborn(i)'
    <3>1. CASE InsertRows(j)
      BY <1>3, <3>1 DEF InsertRows, Rows, Unborn
    <3>2. CASE CreateFails(j)
      BY <1>3, <3>2 DEF CreateFails, Rows, Unborn
    <3>3. CASE FundedOpen(j)
      BY <1>3, <3>3 DEF FundedOpen, Rows, Unborn
    <3>4. CASE CloseJob(j)
      BY <1>3, <3>4 DEF CloseJob, Rows, Unborn
    <3> QED
      BY <1>8, <3>1, <3>2, <3>3, <3>4
  <2> QED
    BY <1>5, <1>8, <2>1 DEF InsertRows, CreateFails, FundedOpen, CloseJob
<1>9. CASE CreateAnswered(j)
  <2>1. \A i \in Jobs : /\ job'[i].form = job[i].form /\ job'[i].creator = job[i].creator
                        /\ job[i].phase # "none" => job'[i].phase # "none"
                        /\ ~Unborn(i) => ~Unborn(i)'
    BY <1>3, <1>9 DEF CreateAnswered, Rows, Unborn
  <2>2. CASE UNCHANGED post
    BY <1>5, <2>1, <2>2
  <2>3. CASE Awaits(j) /\ post' = [post EXCEPT !.at = "funding"]
    <3>1. post'.job = j /\ post'.fund = post.fund /\ post'.funder = post.funder /\ post.at = "creating" /\ post.job = j
      BY <2>3 DEF Awaits, TypeOK
    <3>2. ~Unborn(j)
      BY <1>9 DEF CreateAnswered, Unborn
    <3> QED
      BY <1>0, <2>1, <3>1, <3>2 DEF Offered, Unborn
  <2> QED
    BY <1>9, <1>2, <2>2, <2>3 DEF CreateAnswered
<1>10. CASE FundClick(j)
  <2>1. ~Unborn(j)
    BY <1>3, <1>10 DEF FundClick, JobInv, Begun
  <2> QED
    BY <1>10, <2>1 DEF FundClick, Offered, Unborn
<1>11. CASE FundEscrow(j)
  <2>1. /\ post'.job = j /\ post'.fund = post.fund /\ post'.funder = post.funder
        /\ post.job = j /\ post.at = "funding" /\ UNCHANGED <<job, raced>>
    BY <1>11 DEF FundEscrow, TypeOK
  <2> QED
    BY <2>1 DEF Offered, Unborn
<1> QED
  BY <1>4, <1>6, <1>7, <1>8, <1>9, <1>10, <1>11

-----------------------------------------------------------------------------
(* One job, and the steps that are about it.                               *)

\* A step that is not about a job, and takes the page no nearer to its funding.
Apart(j) ==
    /\ job'[j] = job[j] /\ rows'[j] = rows[j] /\ done'[j] = done[j]
    /\ escrow'[j] = escrow[j] /\ calls'[j] = calls[j] /\ closing'[j] = closing[j]
    /\ (j \in partial' <=> j \in partial) /\ (j \in doubled' <=> j \in doubled)
    /\ (raced => raced') /\ (Pays(j)' => Pays(j))

LEMMA ApartKeeps ==
  ASSUME NEW j \in Jobs, JobInv(j), Apart(j)
  PROVE  JobInv(j)'
<1> USE DEF JobInv, Apart
<1>1. Begun(j)'
  BY DEF Begun, Unborn
<1>2. Unfunded(j)' /\ Reported(j)'
  BY DEF Unfunded, Reported, Fits
<1>3. Laid(j)'
  BY DEF Laid, Unborn
<1>4. Timely(j)' /\ Completed(j)'
  BY DEF Timely, Completed
<1> QED
  BY <1>1, <1>2, <1>3, <1>4

\* A job that is not there has nothing to keep.
LEMMA UnbornKeeps ==
  ASSUME NEW j \in Jobs, Begun(j)', Unborn(j)'
  PROVE  JobInv(j)'
BY DEF Begun, Unborn, JobInv, Unfunded, Reported, Laid, Timely, Completed

LEMMA ClickStep ==
  ASSUME IInv, NEW j \in Jobs, NEW f \in Forms, PostClick(j, f)
  PROVE  JobInv(j)'
<1>1. /\ Begun(j) /\ job[j] \in Rows /\ job \in [Jobs -> Rows] /\ job[j] = NoRow
      /\ token # NoWallet /\ UNCHANGED <<rows, done, closing, escrow, calls, partial>>
  BY JobFields DEF IInv, JobInv, PostClick, TypeOK, server, history
<1>2. /\ job'[j].phase = "asked" /\ job'[j].status = job[j].status /\ job'[j].left = job[j].left
      /\ job'[j].creator = token
  BY <1>1 DEF PostClick, Rows
<1>3. Unborn(j) /\ Unborn(j)'
  BY <1>1, <1>2, Defaults DEF Unborn
<1>4. Begun(j)'
  BY <1>1, <1>2, <1>3 DEF Begun, server
<1> QED
  BY <1>3, <1>4, UnbornKeeps

LEMMA CreateStep ==
  ASSUME IInv, NEW j \in Jobs, CreateJob(j)
  PROVE  JobInv(j)'
<1>1. /\ Begun(j) /\ Unborn(j) /\ job[j] \in Rows /\ job \in [Jobs -> Rows] /\ job[j].form \in Forms
      /\ job[j].phase = "asked" /\ Offered /\ Reported(j)
      /\ UNCHANGED <<rows, done, closing, escrow, calls, partial, doubled, raced>>
  BY JobFields DEF IInv, JobInv, CreateJob, TypeOK, signIn, history, Unborn
<1>2. CASE ~Accepted(job[j].form)
  <2>1. job'[j] = NoRow
    BY <1>1, <1>2 DEF CreateJob
  <2>2. Unborn(j)'
    BY <2>1, Defaults DEF Unborn
  <2>3. Begun(j)'
    BY <1>1, <2>1, <2>2, Defaults DEF Begun
  <2> QED
    BY <2>2, <2>3, UnbornKeeps
<1>3. CASE Accepted(job[j].form)
  <2>1. /\ job'[j].status = Status(job[j].form) /\ job'[j].left = FirstRows(job[j].form)
        /\ job'[j].phase = "rows" /\ job'[j].creator = job[j].creator /\ job'[j].form = job[j].form
        /\ UNCHANGED post
    BY <1>1, <1>3 DEF CreateJob, Rows
  <2>2. /\ rows[j] = {} /\ done[j] = {} /\ escrow[j] = NoEscrow /\ calls[j] = [fetch |-> 0, open |-> 0]
        /\ closing[j] = "no" /\ job[j].creator # NoWallet
    BY <1>1 DEF Begun
  <2>3. Status(job[j].form) \in {"draft", "open"} /\ Shaped(job[j].form)
    BY <1>1, <1>3, StatusType DEF Accepted
  <2>4. ~Unborn(j)' /\ Begun(j)'
    BY <1>1, <1>3, <2>1, <2>2, <2>3 DEF Begun, Unborn
  <2>5. Unfunded(j)' /\ Reported(j)'
    BY <1>1, <2>1, <2>2, <2>3 DEF Unfunded, Reported
  <2>6. Laid(j)'
    BY <1>1, <2>1, <2>2, <2>3, FirstRowsPlanned DEF Laid
  <2>7. ~Pays(j)'
    BY <1>1, <2>1 DEF Pays, Offered
  <2>8. Timely(j)' /\ Completed(j)'
    BY <1>1, <2>1, <2>2, <2>3, <2>7 DEF Timely, Completed
  <2> QED
    BY <2>4, <2>5, <2>6, <2>8 DEF JobInv
<1> QED
  BY <1>2, <1>3

LEMMA InsertStep ==
  ASSUME IInv, NEW j \in Jobs, InsertRows(j)
  PROVE  JobInv(j)'
<1>1. /\ JobInv(j) /\ job[j] \in Rows /\ job \in [Jobs -> Rows] /\ job[j].form \in Forms
      /\ job[j].left \in Seq(Chunks) /\ rows \in [Jobs -> SUBSET Chunks]
      /\ job[j].phase = "rows"
      /\ UNCHANGED <<post, done, closing, escrow, calls, partial, doubled, raced>>
  BY JobFields DEF IInv, InsertRows, TypeOK, signIn, history
<1>2. PICK n \in 0..Len(job[j].left) : n = Least(Batch(job[j].form), Len(job[j].left))
  BY <1>1, BatchTaken
<1> DEFINE now == SubSeq(job[j].left, 1, n)
           then == SubSeq(job[j].left, n + 1, Len(job[j].left))
<1>3. /\ ToSet(now) \cup ToSet(then) = ToSet(job[j].left)
      /\ n = Len(job[j].left) => then = <<>>
  BY <1>1, Splits
<1>4. /\ job'[j].left = then /\ job'[j].phase = (IF n = Len(job[j].left) THEN "created" ELSE "rows")
      /\ job'[j].status = job[j].status /\ job'[j].creator = job[j].creator /\ job'[j].form = job[j].form
      /\ rows'[j] = rows[j] \cup ToSet(now)
  BY <1>1, <1>2 DEF InsertRows, Rows
<1> HIDE DEF now, then
<1>5. ~Unborn(j) /\ ~Unborn(j)'
  BY <1>1, <1>4 DEF Unborn
<1>6. Begun(j)'
  BY <1>1, <1>4, <1>5 DEF JobInv, Begun
<1>7. Unfunded(j)' /\ Reported(j)'
  BY <1>1, <1>4 DEF JobInv, Unfunded, Reported, Fits
<1>8. Laid(j)'
  BY <1>1, <1>3, <1>4, <1>5 DEF JobInv, Laid
<1>9. Timely(j)'
  <2>1. SUFFICES ASSUME j \notin partial, Whole(job[j].form), n # Len(job[j].left)
                 PROVE  Timely(j)'
    BY <1>1, <1>4 DEF Timely
  <2>2. Status(job[j].form) # "open"
    BY <1>1, <1>2, <2>1, BatchTaken DEF JobInv, Timely, Whole
  <2> QED
    BY <1>1, <1>4, <2>1, <2>2 DEF JobInv, Timely, Pays
<1>10. Completed(j)'
  BY <1>1, <1>4, StatusType DEF JobInv, Timely, Completed
<1> QED
  BY <1>6, <1>7, <1>8, <1>9, <1>10 DEF JobInv

LEMMA FailStep ==
  ASSUME IInv, NEW j \in Jobs, CreateFails(j)
  PROVE  JobInv(j)'
<1>1. /\ JobInv(j) /\ job[j] \in Rows /\ job \in [Jobs -> Rows]
      /\ job[j].phase \in {"rows", "created"}
      /\ partial' = IF job[j].phase = "rows" THEN partial \cup {j} ELSE partial
      /\ UNCHANGED <<post, rows, done, closing, escrow, calls, doubled, raced>>
  BY JobFields DEF IInv, CreateFails, TypeOK, signIn
<1>2. /\ job'[j].left = <<>> /\ job'[j].phase = "failed"
      /\ job'[j].status = job[j].status /\ job'[j].creator = job[j].creator /\ job'[j].form = job[j].form
  BY <1>1 DEF CreateFails, Rows
<1>3. ~Unborn(j) /\ ~Unborn(j)'
  BY <1>1, <1>2 DEF Unborn
<1>4. Begun(j)' /\ Unfunded(j)' /\ Reported(j)'
  BY <1>1, <1>2, <1>3 DEF JobInv, Begun, Unfunded, Reported, Fits
<1>5. Laid(j)'
  BY <1>1, <1>2, <1>3 DEF JobInv, Laid
<1>6. Timely(j)' /\ Completed(j)'
  BY <1>1, <1>2 DEF JobInv, Timely, Completed
<1> QED
  BY <1>4, <1>5, <1>6 DEF JobInv

LEMMA AnsweredStep ==
  ASSUME IInv, NEW j \in Jobs, CreateAnswered(j)
  PROVE  JobInv(j)'
<1>1. /\ JobInv(j) /\ job[j] \in Rows /\ job \in [Jobs -> Rows]
      /\ job[j].phase = "created"
      /\ UNCHANGED <<rows, done, closing, escrow, calls, partial, doubled, raced>>
  BY JobFields DEF IInv, CreateAnswered, TypeOK, signIn, history
<1>2. /\ job'[j].left = job[j].left /\ job'[j].phase = "answered"
      /\ job'[j].status = job[j].status /\ job'[j].creator = job[j].creator /\ job'[j].form = job[j].form
  BY <1>1 DEF CreateAnswered, Rows
<1>3. ~Unborn(j) /\ ~Unborn(j)'
  BY <1>1, <1>2 DEF Unborn
<1>4. Begun(j)' /\ Unfunded(j)' /\ Reported(j)'
  BY <1>1, <1>2, <1>3 DEF JobInv, Begun, Unfunded, Reported, Fits
<1>5. Laid(j)'
  BY <1>1, <1>2, <1>3 DEF JobInv, Laid
<1>6. Timely(j)' /\ Completed(j)'
  BY <1>1, <1>2 DEF JobInv, Timely, Completed
<1> QED
  BY <1>4, <1>5, <1>6 DEF JobInv

\* Funding a job whose chunks are not all there gives up what is promised of it.
LEMMA FundClickStep ==
  ASSUME IInv, NEW j \in Jobs, FundClick(j)
  PROVE  JobInv(j)'
<1>1. /\ JobInv(j)
      /\ partial' = IF job[j].phase = "rows" THEN partial \cup {j} ELSE partial
      /\ UNCHANGED <<job, rows, done, closing, escrow, calls, doubled, raced>>
      /\ job[j].status = "draft"
  BY DEF IInv, FundClick, signIn, server
<1>2. ~Unborn(j)
  BY <1>1 DEF JobInv, Begun
<1>3. Begun(j)' /\ Unfunded(j)' /\ Reported(j)'
  BY <1>1, <1>2 DEF JobInv, Begun, Unborn, Unfunded, Reported, Fits
<1>4. Laid(j)' /\ Timely(j)' /\ Completed(j)'
  BY <1>1 DEF JobInv, Laid, Unborn, Timely, Completed
<1> QED
  BY <1>3, <1>4 DEF JobInv

LEMMA EscrowStep ==
  ASSUME IInv, NEW j \in Jobs, FundEscrow(j)
  PROVE  JobInv(j)'
<1>1. /\ JobInv(j) /\ Pays(j) /\ Offered
      /\ escrow'[j] = [funder |-> post.funder, budget |-> post.fund.budget, price |-> post.fund.price]
      /\ UNCHANGED <<job, rows, done, closing, calls, partial, doubled, raced>>
  BY DEF IInv, FundEscrow, signIn, server, history, Pays, TypeOK
<1>2. /\ ~Unborn(j) /\ post.fund = PageFund(job[j].form) /\ (~raced => post.funder = job[j].creator)
  BY <1>1 DEF Offered, Pays
<1>3. Begun(j)' /\ Reported(j)'
  BY <1>1, <1>2 DEF JobInv, Begun, Unborn, Reported
<1>4. Unfunded(j)'
  <2>1. PageFund(job[j].form).budget \in Nat
    BY JobFields, FundType DEF IInv, Funds
  <2> QED
    BY <1>1, <1>2, <2>1 DEF Unfunded, Fits
<1>5. Laid(j)' /\ Timely(j)' /\ Completed(j)'
  BY <1>1 DEF JobInv, Laid, Unborn, Timely, Completed
<1> QED
  BY <1>3, <1>4, <1>5 DEF JobInv

\* A report that has read a draft is the only one, or is on record.
LEMMA CallStep ==
  ASSUME IInv, NEW j \in Jobs, Call(j), job[j].status = "draft",
         UNCHANGED <<job, rows, done, closing, escrow, partial, raced>>, Pays(j)' => Pays(j)
  PROVE  JobInv(j)'
<1>1. JobInv(j) /\ calls[j].fetch \in Nat /\ calls[j].open \in Nat /\ calls \in [Jobs -> [fetch : Nat, open : Nat]]
  BY JobFields DEF IInv, TypeOK
<1>2. calls'[j].fetch = calls[j].fetch + 1 /\ calls'[j].open = calls[j].open
  BY <1>1 DEF Call
<1>3. ~Unborn(j)
  BY <1>1 DEF JobInv, Begun
<1>4. Begun(j)' /\ Unfunded(j)'
  BY <1>1, <1>3 DEF JobInv, Begun, Unborn, Unfunded, Fits
<1>5. Reported(j)'
  BY <1>1, <1>2 DEF Reported, Call
<1>6. Laid(j)' /\ Timely(j)' /\ Completed(j)'
  BY <1>1, <1>2 DEF JobInv, Laid, Unborn, Timely, Completed
<1> QED
  BY <1>4, <1>5, <1>6 DEF JobInv

LEMMA CheckStep ==
  ASSUME IInv, NEW j \in Jobs, FundedCheck(j)
  PROVE  JobInv(j)'
<1>1. /\ JobInv(j) /\ calls[j].fetch \in Nat \ {0} /\ calls[j].open \in Nat
      /\ calls \in [Jobs -> [fetch : Nat, open : Nat]]
      /\ UNCHANGED <<post, job, rows, done, closing, escrow, partial, doubled, raced>>
  BY JobFields DEF IInv, FundedCheck, signIn, server, history, TypeOK
<1>2. /\ calls'[j].fetch = calls[j].fetch - 1
      /\ calls'[j].open = calls[j].open + (IF Fits(escrow[j], job[j]) THEN 1 ELSE 0)
  BY <1>1 DEF FundedCheck
<1>3. ~Unborn(j)
  BY <1>1 DEF JobInv, Begun
<1>4. Begun(j)' /\ Unfunded(j)'
  BY <1>1, <1>3 DEF JobInv, Begun, Unborn, Unfunded, Fits
<1>5. Reported(j)'
  BY <1>1, <1>2 DEF JobInv, Reported
<1>6. Laid(j)' /\ Completed(j)'
  BY <1>1 DEF JobInv, Laid, Unborn, Completed
<1>7. Timely(j)'
  <2>1. escrow[j] = NoEscrow => ~Fits(escrow[j], job[j])
    BY <1>1, <1>3, Defaults DEF JobInv, Begun, Fits
  <2> QED
    BY <1>1, <1>2, <2>1 DEF JobInv, Timely, Pays
<1> QED
  BY <1>4, <1>5, <1>6, <1>7 DEF JobInv

LEMMA OpenStep ==
  ASSUME IInv, NEW j \in Jobs, FundedOpen(j)
  PROVE  JobInv(j)'
<1>1. /\ JobInv(j) /\ calls[j].fetch \in Nat /\ calls[j].open \in Nat \ {0}
      /\ calls \in [Jobs -> [fetch : Nat, open : Nat]] /\ job[j] \in Rows /\ job \in [Jobs -> Rows]
      /\ UNCHANGED <<post, rows, done, closing, escrow, partial, doubled, raced>>
  BY JobFields DEF IInv, FundedOpen, signIn, history, TypeOK
<1>2. /\ calls'[j].fetch = calls[j].fetch /\ calls'[j].open = calls[j].open - 1
      /\ job'[j].status = "open"
      /\ job'[j].left = job[j].left /\ job'[j].phase = job[j].phase
      /\ job'[j].creator = job[j].creator /\ job'[j].form = job[j].form
  BY <1>1 DEF FundedOpen, Rows
<1>3. ~Unborn(j) /\ ~Unborn(j)'
  BY <1>1, <1>2 DEF JobInv, Begun, Unborn
<1>4. Begun(j)' /\ Unfunded(j)' /\ Reported(j)'
  BY <1>1, <1>2, <1>3 DEF JobInv, Begun, Unfunded, Fits, Reported
<1>5. Laid(j)'
  BY <1>1, <1>2, <1>3 DEF JobInv, Laid
<1>6. Timely(j)' /\ Completed(j)'
  BY <1>1, <1>2 DEF JobInv, Timely, Completed, Pays
<1> QED
  BY <1>4, <1>5, <1>6 DEF JobInv

LEMMA DoneStep ==
  ASSUME IInv, NEW j \in Jobs, ChunkDone(j)
  PROVE  JobInv(j)'
<1>1. PICK r \in rows[j] \ done[j] :
        /\ done' = [done EXCEPT ![j] = @ \cup {r}]
        /\ rows' = [rows EXCEPT ![j] = @ \cup Successors(job[j].form, r)]
  BY DEF ChunkDone
<1>2. /\ JobInv(j) /\ job[j].form \in Forms /\ job[j].status = "open" /\ closing[j] = "no"
      /\ done'[j] = done[j] \cup {r} /\ rows'[j] = rows[j] \cup Successors(job[j].form, r)
      /\ closing'[j] = "count"
      /\ UNCHANGED <<post, job, escrow, calls, partial, doubled, raced>>
  BY <1>1, JobFields DEF IInv, ChunkDone, signIn, history, TypeOK
<1>3. ~Unborn(j) /\ ~Unborn(j)' /\ Shaped(job[j].form)
  BY <1>2 DEF JobInv, Begun, Unborn, Accepted
<1>4. Begun(j)' /\ Unfunded(j)' /\ Reported(j)'
  BY <1>2, <1>3 DEF JobInv, Begun, Unborn, Unfunded, Fits, Reported
<1>5. Laid(j)'
  <2>1. SUFFICES ASSUME j \notin partial PROVE Laid(j)'
    BY <1>2 DEF Laid
  <2>2. r \in Planned(job[j].form)
    BY <1>1, <1>2, <1>3, <2>1 DEF JobInv, Laid
  <2>3. Successors(job[j].form, r) \subseteq Planned(job[j].form)
    BY <1>2, <1>3, <2>2, SuccessorsPlanned
  <2> QED
    BY <1>1, <1>2, <1>3, <2>1, <2>3 DEF JobInv, Laid
<1>6. Timely(j)'
  <2>1. SUFFICES ASSUME j \notin partial, job[j].phase = "rows", Whole(job[j].form) PROVE FALSE
    BY <1>2 DEF Timely
  <2>2. rows[j] = {}
    BY <1>2, <2>1 DEF JobInv, Timely
  <2> QED
    BY <1>1, <2>2
<1>7. Completed(j)'
  BY <1>2 DEF Completed
<1> QED
  BY <1>4, <1>5, <1>6, <1>7 DEF JobInv

LEMMA CountStep ==
  ASSUME IInv, NEW j \in Jobs, CountInFlight(j)
  PROVE  JobInv(j)'
<1>1. /\ JobInv(j) /\ closing[j] = "count" /\ closing'[j] = IF rows[j] = done[j] THEN "close" ELSE "no"
      /\ UNCHANGED <<post, job, rows, done, escrow, calls, partial, doubled, raced>>
  BY DEF IInv, CountInFlight, signIn, history, TypeOK
<1>2. ~Unborn(j)
  BY <1>1 DEF JobInv, Begun
<1>3. Begun(j)' /\ Unfunded(j)' /\ Reported(j)'
  BY <1>1, <1>2 DEF JobInv, Begun, Unborn, Unfunded, Fits, Reported
<1>4. Laid(j)' /\ Timely(j)' /\ Completed(j)'
  BY <1>1 DEF JobInv, Laid, Unborn, Timely, Completed
<1> QED
  BY <1>3, <1>4 DEF JobInv

LEMMA CloseStep ==
  ASSUME IInv, NEW j \in Jobs, CloseJob(j)
  PROVE  JobInv(j)'
<1>1. /\ JobInv(j) /\ closing[j] = "close" /\ closing'[j] = "no"
      /\ job[j] \in Rows /\ job \in [Jobs -> Rows]
      /\ UNCHANGED <<post, rows, done, escrow, calls, partial, doubled, raced>>
  BY JobFields DEF IInv, CloseJob, signIn, history, TypeOK
<1>2. /\ job'[j].status = (IF job[j].status = "open" THEN "closed" ELSE job[j].status)
      /\ job'[j].left = job[j].left /\ job'[j].phase = job[j].phase
      /\ job'[j].creator = job[j].creator /\ job'[j].form = job[j].form
  BY <1>1 DEF CloseJob, Rows
<1>3. ~Unborn(j) /\ ~Unborn(j)'
  BY <1>1, <1>2 DEF JobInv, Begun, Unborn
<1>4. Begun(j)' /\ Unfunded(j)' /\ Reported(j)'
  BY <1>1, <1>2, <1>3 DEF JobInv, Begun, Unfunded, Fits, Reported
<1>5. Laid(j)'
  BY <1>1, <1>2, <1>3 DEF JobInv, Laid
<1>6. Timely(j)' /\ Completed(j)'
  BY <1>1, <1>2 DEF JobInv, Timely, Completed
<1> QED
  BY <1>4, <1>5, <1>6 DEF JobInv

LEMMA ReclaimStep ==
  ASSUME IInv, NEW j \in Jobs, Reclaim(j)
  PROVE  JobInv(j)'
<1>1. /\ JobInv(j) /\ job[j].status = "closed" /\ escrow'[j] = NoEscrow
      /\ UNCHANGED <<post, job, rows, done, closing, calls, partial, doubled, raced>>
  BY DEF IInv, Reclaim, signIn, server, history, TypeOK
<1>2. ~Unborn(j)
  BY <1>1 DEF JobInv, Begun
<1>3. Begun(j)' /\ Unfunded(j)' /\ Reported(j)'
  BY <1>1, <1>2 DEF JobInv, Begun, Unborn, Unfunded, Reported
<1>4. Laid(j)' /\ Timely(j)' /\ Completed(j)'
  BY <1>1 DEF JobInv, Laid, Unborn, Timely, Completed, Pays
<1> QED
  BY <1>3, <1>4 DEF JobInv

\* Every action is about one job, and apart from the others.
LEMMA JobStep ==
  ASSUME IInv, Next, NEW j \in Jobs
  PROVE  JobInv(j)'
<1>0. TypeOK /\ JobInv(j) /\ (raced => raced')
  BY SessionStep DEF IInv
<1>1. CASE SignInNext /\ UNCHANGED <<post, server, escrow, calls, history>>
  BY <1>0, <1>1, ApartKeeps DEF Apart, server, history, Pays
<1>2. CASE PageGone
  BY <1>0, <1>2, ApartKeeps, Defaults DEF PageGone, Apart, server, Pays
<1> SUFFICES ASSUME NEW i \in Jobs,
                    \/ \E f \in Forms : PostClick(i, f)
                    \/ CreateJob(i) \/ InsertRows(i) \/ CreateFails(i) \/ CreateAnswered(i)
                    \/ FundClick(i) \/ FundEscrow(i) \/ Report(i) \/ ReportAgain(i)
                    \/ FundedCheck(i) \/ FundedOpen(i)
                    \/ ChunkDone(i) \/ CountInFlight(i) \/ CloseJob(i) \/ Reclaim(i)
             PROVE  JobInv(j)'
  BY <1>1, <1>2 DEF Next
<1>3. CASE i # j
  <2> USE DEF TypeOK, server, history, Pays
  <2>1. ASSUME NEW f \in Forms, PostClick(i, f) PROVE Apart(j)
    BY <1>0, <1>3, <2>1 DEF PostClick, Apart
  <2>2. ASSUME CreateJob(i) PROVE Apart(j)
    BY <1>0, <1>3, <2>2, Defaults DEF CreateJob, Apart
  <2>3. ASSUME InsertRows(i) PROVE Apart(j)
    BY <1>0, <1>3, <2>3 DEF InsertRows, Apart
  <2>4. ASSUME CreateFails(i) PROVE Apart(j)
    BY <1>0, <1>3, <2>4 DEF CreateFails, Apart
  <2>5. ASSUME CreateAnswered(i) PROVE Apart(j)
    BY <1>0, <1>3, <2>5, Defaults DEF CreateAnswered, Apart, Awaits
  <2>6. ASSUME FundClick(i) PROVE Apart(j)
    BY <1>0, <1>3, <2>6 DEF FundClick, Apart
  <2>7. ASSUME FundEscrow(i) PROVE Apart(j)
    BY <1>0, <1>3, <2>7 DEF FundEscrow, Apart
  <2>8. ASSUME Report(i) PROVE Apart(j)
    BY <1>0, <1>3, <2>8, Defaults DEF Report, Call, Apart
  <2>9. ASSUME ReportAgain(i) PROVE Apart(j)
    BY <1>0, <1>3, <2>9 DEF ReportAgain, Call, Apart
  <2>10. ASSUME FundedCheck(i) PROVE Apart(j)
    BY <1>0, <1>3, <2>10 DEF FundedCheck, Apart
  <2>11. ASSUME FundedOpen(i) PROVE Apart(j)
    BY <1>0, <1>3, <2>11 DEF FundedOpen, Apart
  <2>12. ASSUME ChunkDone(i) PROVE Apart(j)
    BY <1>0, <1>3, <2>12 DEF ChunkDone, Apart
  <2>13. ASSUME CountInFlight(i) PROVE Apart(j)
    BY <1>0, <1>3, <2>13 DEF CountInFlight, Apart
  <2>14. ASSUME CloseJob(i) PROVE Apart(j)
    BY <1>0, <1>3, <2>14 DEF CloseJob, Apart
  <2>15. ASSUME Reclaim(i) PROVE Apart(j)
    BY <1>0, <1>3, <2>15 DEF Reclaim, Apart
  <2> QED
    BY <1>0, <2>1, <2>2, <2>3, <2>4, <2>5, <2>6, <2>7, <2>8, <2>9, <2>10, <2>11, <2>12, <2>13, <2>14, <2>15,
       ApartKeeps
<1>4. CASE i = j
  <2>1. CASE Report(j)
    <3>1. UNCHANGED <<job, rows, done, closing, escrow, partial, raced>> /\ ~Pays(j)'
      BY <2>1, Defaults DEF Report, server, signIn, Pays
    <3>2. CASE FundedRead(j, post.session)
      BY <2>1, <3>1, <3>2, CallStep DEF Report, FundedRead
    <3>3. CASE ~FundedRead(j, post.session)
      BY <1>0, <2>1, <3>1, <3>3, ApartKeeps DEF Report, Apart
    <3> QED
      BY <3>2, <3>3
  <2>2. CASE ReportAgain(j)
    BY <2>2, CallStep DEF ReportAgain, FundedRead, server, signIn, Pays
  <2> QED
    BY <1>4, <2>1, <2>2, ClickStep, CreateStep, InsertStep, FailStep, AnsweredStep, FundClickStep, EscrowStep,
       CheckStep, OpenStep, DoneStep, CountStep, CloseStep, ReclaimStep
<1> QED
  BY <1>3, <1>4

LEMMA InitInv ==
  ASSUME Init
  PROVE  IInv
<1> USE Defaults DEF Init, SignInInit
<1>1. SignInOK
  BY DEF SignInOK, Someone, Idle
<1>2. TypeOK
  BY <1>1 DEF TypeOK
<1>3. Attempted /\ TokenScoped /\ Offered
  BY DEF Attempted, TokenScoped, Offered
<1>4. ASSUME NEW j \in Jobs PROVE JobInv(j)
  <2>1. Unborn(j)
    BY DEF Unborn
  <2>2. Begun(j)
    BY <2>1 DEF Begun
  <2> QED
    BY <2>1, <2>2 DEF Begun, Unborn, JobInv, Unfunded, Reported, Laid, Timely, Completed
<1> QED
  BY <1>2, <1>3, <1>4 DEF IInv

LEMMA InvStep ==
  ASSUME IInv, [Next]_vars
  PROVE  IInv'
<1>1. CASE Next
  BY <1>1, TypeStep, SessionStep, OfferedStep, JobStep DEF IInv
<1>2. CASE UNCHANGED vars
  <2>1. TypeOK' /\ Attempted' /\ TokenScoped' /\ Offered'
    BY <1>2 DEF IInv, vars, signIn, server, history, TypeOK, SignInOK, Attempted, TokenScoped, Offered, Unborn
  <2>2. \A j \in Jobs : Apart(j)
    BY <1>2 DEF vars, signIn, server, history, Apart, Pays
  <2> QED
    BY <2>1, <2>2, ApartKeeps DEF IInv
<1> QED
  BY <1>1, <1>2

THEOREM Invariant == Spec => []IInv
BY InitInv, InvStep, PTL DEF Spec

-----------------------------------------------------------------------------
(* What a requester and the coordinator rely on.                           *)

\* Every record of a posting, on the page, in the tables and on chain, keeps the
\* values its code allows.
THEOREM TypeCorrect == Spec => []TypeOK
BY Invariant, PTL DEF IInv

\* The page's session is its wallet's, until the wallet changes during a sign-in
\* (auth.tsx).
THEOREM SessionIsTheWallets == Spec => []TokenScoped
BY Invariant, PTL DEF IInv

\* The form's budget is the coordinator's price of the chunks it cuts, and an
\* escrow that holds money passes the checks of POST funded.
THEOREM FundsAreAsked == Spec => []FundingFits
<1>1. \A f \in Forms : Shaped(f) /\ f.kind # "prize" => PageBudget(f) = f.price * chunkCount(f)
  BY BudgetIsPrice
<1>2. IInv => FundingFits
  BY <1>1 DEF IInv, JobInv, Unfunded, FundingFits
<1> QED
  BY <1>2, Invariant, PTL

\* A job that has closed has had every seed and generation worked, each in one
\* chunk (createJob, finalizeTrainingChunk, maybeCompleteJob).
THEOREM ClosedMeansCovered == Spec => []ClosedIsCovered
<1>1. ASSUME IInv PROVE ClosedIsCovered
  <2>1. SUFFICES ASSUME NEW j \in Jobs, job[j].status = "closed", j \notin partial, Whole(job[j].form)
                 PROVE  \A x \in Space(job[j].form) :
                          \E r \in done[j] : /\ x \in r[1] .. r[2] - 1
                                             /\ \A s \in rows[j] \ {r} : x \notin s[1] .. s[2] - 1
    BY DEF ClosedIsCovered
  <2>2. JobInv(j) /\ job[j].form \in Forms
    BY <1>1, JobFields DEF IInv
  <2>3. rows[j] = done[j] /\ job[j].phase # "rows" /\ ~Unborn(j)
    BY <2>1, <2>2 DEF JobInv, Completed, Begun
  <2>4. Shaped(job[j].form)
    BY <2>2, <2>3 DEF JobInv, Begun, Accepted
  <2>5. job[j].left = <<>> /\ ToSet(job[j].left) = {}
    BY <2>1, <2>2, <2>3 DEF JobInv, Laid, ToSet
  <2>6. /\ rows[j] \subseteq Planned(job[j].form) /\ ToSet(FirstRows(job[j].form)) \subseteq rows[j]
        /\ \A r \in rows[j] : Successors(job[j].form, r) \subseteq rows[j]
    BY <2>1, <2>2, <2>3, <2>5 DEF JobInv, Laid
  <2> QED
    BY <2>2, <2>3, <2>4, <2>6, PlanCovers
<1> QED
  BY <1>1, Invariant, PTL

\* A closed job is not opened again but by a second report of its funding that
\* overlapped the first (routes.ts, POST funded).
THEOREM ClosedIsFinal == Spec => StaysClosed
<1>1. ASSUME IInv, [Next]_vars, NEW j \in Jobs, job[j].status = "closed", j \notin doubled
      PROVE  job'[j].status = "closed"
  <2>1. JobInv(j) /\ job \in [Jobs -> Rows] /\ job[j] \in Rows /\ ~Unborn(j)
        /\ calls[j].fetch \in Nat /\ calls[j].open \in Nat /\ calls[j].open = 0
    BY <1>1, JobFields DEF IInv, JobInv, TypeOK, Begun, Reported
  <2>2. CASE job' = job
    BY <1>1, <2>2
  <2>3. ASSUME NEW i \in Jobs,
               \/ \E f \in Forms : PostClick(i, f)
               \/ CreateJob(i) \/ InsertRows(i) \/ CreateFails(i) \/ CreateAnswered(i)
               \/ FundedOpen(i) \/ CloseJob(i)
        PROVE  job'[j].status = "closed"
    <3>1. CASE i # j
      BY <1>1, <2>1, <2>3, <3>1 DEF PostClick, CreateJob, InsertRows, CreateFails, CreateAnswered, FundedOpen, CloseJob
    <3>2. CASE i = j
      <4>1. job[j] # NoRow /\ job[j].phase # "asked"
        BY <1>1, <2>1, Defaults DEF Unborn
      <4>2. ~ \E f \in Forms : PostClick(j, f)
        BY <4>1 DEF PostClick
      <4>3. ~CreateJob(j) /\ ~FundedOpen(j)
        BY <2>1, <4>1 DEF CreateJob, FundedOpen
      <4>4. CASE InsertRows(j)
        BY <1>1, <2>1, <4>4 DEF InsertRows, Rows
      <4>5. CASE CreateFails(j)
        BY <1>1, <2>1, <4>5 DEF CreateFails, Rows
      <4>6. CASE CreateAnswered(j)
        BY <1>1, <2>1, <4>6 DEF CreateAnswered, Rows
      <4>7. CASE CloseJob(j)
        BY <1>1, <2>1, <4>7 DEF CloseJob, Rows
      <4> QED
        BY <2>3, <3>2, <4>2, <4>3, <4>4, <4>5, <4>6, <4>7
    <3> QED
      BY <3>1, <3>2
  <2> QED
    BY <1>1, <2>2, <2>3 DEF Next, vars, server, PageGone, FundClick, FundEscrow, Report, ReportAgain, FundedCheck,
       ChunkDone, CountInFlight, Reclaim
<1>2. IInv /\ [Next]_vars =>
        [\A j \in Jobs : job[j].status = "closed" /\ j \notin doubled => job'[j].status = "closed"]_vars
  BY <1>1
<1> QED
  BY <1>2, Invariant, PTL DEF Spec, StaysClosed
-----------------------------------------------------------------------------
\* No bounty calls an export that its module lacks: load and the guards of job
\* creation ask for what verification calls.
LEMMA AdmittedServes == Served
<1> SUFFICES ASSUME NEW abi \in SUBSET Exports, NEW mode \in Modes,
                    NEW cand \in {"scores", "changes", "refused", "slow"}, NEW ends \in BOOLEAN, NEW slow \in BOOLEAN,
                    NEW draw \in Draws,
                    NEW m, m = [abi |-> abi, mode |-> mode, cand |-> cand, ends |-> ends, slow |-> slow,
                                out |-> Uniform, seed |-> [i \in Calls |-> TRUE]],
                    runConformanceGate(m, draw), NEW kind \in {"coverage", "prize", "training"}, Creates(kind, m)
             PROVE  Asks(kind, m) \subseteq m.abi
  BY DEF Served
<1>1. load(m)
  BY DEF runConformanceGate
<1>2. CASE kind = "coverage"
  <2>1. m.mode # "training" /\ (m.mode = "witness_extremum" => supportsExtremum(m))
    BY <1>2 DEF Creates
  <2>2. CASE m.mode = "output_hash"
    BY <1>1, <1>2, <2>2 DEF load, MODE_ABI, Asks
  <2>3. CASE m.mode # "output_hash"
    <3>1. m.mode = "witness_extremum"
      BY <1>1, <2>1, <2>3 DEF load, Modes
    <3> QED
      BY <1>2, <2>1, <2>3, <3>1 DEF Asks, supportsExtremum
  <2> QED
    BY <2>2, <2>3
<1>3. CASE kind = "prize"
  BY <1>3 DEF Creates, Asks, supportsCandidates
<1>4. CASE kind = "training"
  <2>1. m.mode = "training"
    BY <1>4 DEF Creates
  <2> QED
    BY <1>1, <1>4, <2>1 DEF load, MODE_ABI, Asks
<1> QED
  BY <1>2, <1>3, <1>4

\* A module as Repeatable looks at it.
Probed(m, mode) ==
    /\ \E out \in [0 .. GATE_BUCKETS -> [Calls -> Answers]], seed \in [Calls -> BOOLEAN] :
         m = [abi |-> Exports, mode |-> mode, cand |-> "scores", ends |-> TRUE, slow |-> FALSE, out |-> out, seed |-> seed]
    /\ mode \in Modes

LEMMA ProbedFields ==
  ASSUME NEW m, NEW mode, Probed(m, mode)
  PROVE  /\ m.out \in [0 .. GATE_BUCKETS -> [Calls -> Answers]] /\ m.seed \in [Calls -> BOOLEAN]
         /\ m.abi = Exports /\ m.mode = mode /\ m.cand = "scores" /\ m.ends = TRUE /\ m.slow = FALSE
         /\ mode \in Modes
BY DEF Probed

\* A module that keeps nothing passes whatever is drawn.
LEMMA PurePasses ==
  ASSUME NEW m, NEW mode, Probed(m, mode), NEW draw \in Draws, Pure(m), mode # "unknown"
  PROVE  runConformanceGate(m, draw)
<1>1. /\ m.out \in [0 .. GATE_BUCKETS -> [Calls -> Answers]] /\ m.seed \in [Calls -> BOOLEAN]
      /\ m.abi = Exports /\ m.mode = mode /\ m.cand = "scores" /\ m.ends = TRUE /\ m.slow = FALSE
      /\ mode \in Modes
  BY ProbedFields
<1>2. \A p \in 0 .. GATE_BUCKETS, i \in Calls : m.out[p][i] = m.out[0][i] /\ m.out[0][i] # Failed
  BY GateAssumption DEF Pure, Calls
<1>11. \A i \in Calls : m.seed[i]
  BY Zenon DEF Pure
<1>3. 1 \in Calls /\ 2 \in Calls /\ GATE_BUCKETS \in 0 .. GATE_BUCKETS /\ 0 \in 0 .. GATE_BUCKETS /\ Calls \subseteq 0 .. GATE_BUCKETS
  BY GateAssumption DEF Calls
<1>4. \A i \in Calls : i # 1 => i - 1 \in 0 .. GATE_BUCKETS
  BY GateAssumption DEF Calls
<1>5. \A i \in Calls : Sequential(m, 0)[i] = m.out[0][i] /\ Sequential(m, GATE_BUCKETS)[i] = m.out[0][i]
  BY <1>2, <1>3, <1>4 DEF Sequential
<1>6. Twice(m)
  <2>1. Sequential(m, GATE_BUCKETS) = Sequential(m, 0)
    <3>1. \A p \in {0, GATE_BUCKETS} : Sequential(m, p) = [i \in Calls |-> m.out[0][i]]
      BY <1>2, <1>3, <1>4 DEF Sequential
    <3> QED
      BY <3>1
  <2>2. \A i \in Calls : Sequential(m, 0)[i] # Failed
    BY <1>2, <1>3, <1>5
  <2> QED
    BY <2>1, <2>2, Zenon DEF Twice
<1>7. load(m) /\ CandidateSuite(m)
  BY <1>1 DEF load, CandidateSuite, MODE_ABI, supportsExtremum, supportsCandidates, Exports, Modes
<1>8. CASE mode = "witness_extremum"
  <2>1. ExtremumSuite(m)
    BY <1>6, <1>11, Zenon DEF ExtremumSuite
  <2> QED
    BY <1>1, <1>7, <1>8, <2>1 DEF runConformanceGate
<1>9. CASE mode = "output_hash"
  <2>1. \A k \in 1 .. ISOLATED_SAMPLES : draw[k] \in Calls /\ (k # 1 => draw[k - 1] \in Calls)
    BY GateAssumption DEF Draws
  <2>2. RenderSuite(m, draw)
    BY <1>2, <1>3, <1>5, <1>6, <2>1 DEF RenderSuite
  <2> QED
    BY <1>1, <1>7, <1>9, <2>2 DEF runConformanceGate
<1>10. CASE mode = "training"
  <2>1. TrainingSuite(m)
    <3>1. m.seed[2] /\ ~m.slow
      BY <1>1, <1>3, <1>11, Zenon
    <3>2. /\ Failed \notin {m.out[0][1], m.out[1][1], m.out[1][2], m.out[2][2]}
          /\ m.out[0][1] = m.out[1][1] /\ m.out[1][2] = m.out[2][2]
      BY <1>2, <1>3
    <3> QED
      BY <3>1, <3>2, Zenon DEF TrainingSuite
  <2> QED
    BY <1>1, <1>7, <1>10, <2>1 DEF runConformanceGate
<1> QED
  BY <1>1, <1>8, <1>9, <1>10 DEF Modes

\* A second chunk is answered as the first.
LEMMA SecondChunk ==
  ASSUME NEW m, NEW mode, Probed(m, mode), NEW draw \in Draws, runConformanceGate(m, draw), mode # "training"
  PROVE  Sequential(m, GATE_BUCKETS) = Sequential(m, 0)
<1>1. m.abi = Exports /\ m.mode = mode /\ mode \in Modes
  BY ProbedFields
<1>2. load(m)
  BY DEF runConformanceGate
<1>3. CASE mode = "witness_extremum"
  <2>1. ExtremumSuite(m) /\ supportsExtremum(m)
    BY <1>1, <1>3 DEF runConformanceGate, supportsExtremum, Exports
  <2> QED
    BY <2>1 DEF ExtremumSuite, Twice
<1>4. CASE mode = "output_hash"
  <2>1. RenderSuite(m, draw)
    BY <1>1, <1>4 DEF runConformanceGate
  <2> QED
    BY <2>1 DEF RenderSuite, Twice
<1> QED
  BY <1>1, <1>2, <1>3, <1>4 DEF Modes, load

\* A draw that admits a render module has had its probes answered as the worker was.
LEMMA ProbesAgree ==
  ASSUME NEW m, NEW mode, Probed(m, mode), NEW draw \in Draws, runConformanceGate(m, draw), mode = "output_hash"
  PROVE  /\ 1 \in 1 .. ISOLATED_SAMPLES /\ draw[1] \in Calls /\ Agrees(m, 0, draw[1])
         /\ \A k \in 2 .. ISOLATED_SAMPLES :
              draw[k] \in Calls /\ draw[k - 1] \in Calls /\ Agrees(m, draw[k - 1], draw[k])
<1>0. m.mode = "output_hash"
  BY ProbedFields
<1>1. RenderSuite(m, draw)
  BY <1>0 DEF runConformanceGate
<1>2. 1 \in 1 .. ISOLATED_SAMPLES /\ \A k \in 2 .. ISOLATED_SAMPLES : k \in 1 .. ISOLATED_SAMPLES /\ k - 1 \in 1 .. ISOLATED_SAMPLES /\ k # 1
  BY GateAssumption
<1> QED
  BY <1>1, <1>2 DEF RenderSuite, Agrees, Draws

\* What one draw is worth.
LEMMA AdmittedRepeats == Repeatable
<1> SUFFICES ASSUME NEW out \in [0 .. GATE_BUCKETS -> [Calls -> Answers]], NEW seed \in [Calls -> BOOLEAN], NEW mode \in Modes,
                    NEW draw \in Draws,
                    NEW m, m = [abi |-> Exports, mode |-> mode, cand |-> "scores", ends |-> TRUE, slow |-> FALSE,
                                out |-> out, seed |-> seed]
             PROVE  /\ Pure(m) /\ mode # "unknown" => runConformanceGate(m, draw)
                    /\ runConformanceGate(m, draw) /\ mode # "training" =>
                           Sequential(m, GATE_BUCKETS) = Sequential(m, 0)
                    /\ runConformanceGate(m, draw) /\ mode = "output_hash" =>
                           /\ WrongAlone(m) \/ OnlyInOrder(m) => draw[1] = 1
                           /\ OnlyInOrder(m) => \A k \in 2 .. ISOLATED_SAMPLES :
                                                   draw[k] \in {1 + draw[k - 1], 1 + draw[k - 1] - GATE_BUCKETS}
  BY DEF Repeatable
<1>1. Probed(m, mode)
  BY DEF Probed
<1>2. Pure(m) /\ mode # "unknown" => runConformanceGate(m, draw)
  BY <1>1, PurePasses
<1>3. runConformanceGate(m, draw) /\ mode # "training" => Sequential(m, GATE_BUCKETS) = Sequential(m, 0)
  BY <1>1, SecondChunk
<1>4. ASSUME runConformanceGate(m, draw), mode = "output_hash"
      PROVE  /\ WrongAlone(m) \/ OnlyInOrder(m) => draw[1] = 1
             /\ OnlyInOrder(m) => \A k \in 2 .. ISOLATED_SAMPLES :
                                     draw[k] \in {1 + draw[k - 1], 1 + draw[k - 1] - GATE_BUCKETS}
  <2>1. /\ 1 \in 1 .. ISOLATED_SAMPLES /\ draw[1] \in Calls /\ Agrees(m, 0, draw[1])
        /\ \A k \in 2 .. ISOLATED_SAMPLES :
              draw[k] \in Calls /\ draw[k - 1] \in Calls /\ Agrees(m, draw[k - 1], draw[k])
    BY <1>1, <1>4, ProbesAgree
  <2>2. ASSUME WrongAlone(m) PROVE draw[1] = 1
    BY <2>1, <2>2 DEF WrongAlone
  <2>3. ASSUME OnlyInOrder(m)
        PROVE  /\ draw[1] = 1
               /\ \A k \in 2 .. ISOLATED_SAMPLES :
                    draw[k] \in {1 + draw[k - 1], 1 + draw[k - 1] - GATE_BUCKETS}
    <3>1. \A p \in 0 .. GATE_BUCKETS, i \in Calls : Agrees(m, p, i) => p = i - 1 \/ (p = GATE_BUCKETS /\ i = 1)
      BY <2>3 DEF OnlyInOrder
    <3>2. 0 = draw[1] - 1 \/ 0 = GATE_BUCKETS
      <4>1. 0 \in 0 .. GATE_BUCKETS
        BY GateAssumption
      <4> QED
        BY <2>1, <3>1, <4>1
    <3>3. draw[1] = 1
      BY <2>1, <3>2, GateAssumption DEF Calls
    <3>4. ASSUME NEW k \in 2 .. ISOLATED_SAMPLES
          PROVE  draw[k] \in {1 + draw[k - 1], 1 + draw[k - 1] - GATE_BUCKETS}
      <4>1. draw[k] \in Calls /\ draw[k - 1] \in Calls /\ Agrees(m, draw[k - 1], draw[k])
        BY <2>1
      <4>2. draw[k - 1] \in 0 .. GATE_BUCKETS
        BY <4>1, GateAssumption DEF Calls
      <4>3. draw[k - 1] = draw[k] - 1 \/ (draw[k - 1] = GATE_BUCKETS /\ draw[k] = 1)
        BY <3>1, <4>1, <4>2
      <4> QED
        BY <4>1, <4>2, <4>3, GateAssumption DEF Calls
    <3> QED
      BY <3>3, <3>4
  <2> QED
    BY <2>2, <2>3
<1> QED
  BY <1>2, <1>3, <1>4

\* The upsert leaves a built-in row built in, and changes nothing of a row that
\* is another's or built in when it was read as it is.
LEMMA RegisterKeeps == PublisherKept(Wallets)
BY DEF PublisherKept, Register

\* The registry's caches: an instance under a name is of that name's artifact.
Registers ==
    {r \in [mods : [Hashes -> Artifacts], bytes : [Hashes -> Artifacts], rows : [Hashes -> Artifacts]] :
        \A h \in Hashes : r.mods[h] \in {h, Absent}}

\* The four kinds of events are told apart by their names.
LEMMA EventKinds ==
  ASSUME NEW e \in Events
  PROVE  \/ e[1] = "get" /\ e[2] \in Hashes
         \/ e[1] = "getBytes" /\ e[2] \in Hashes
         \/ e[1] = "boot" /\ e = <<"boot">>
         \/ e[1] = "row" /\ e[2] \in Hashes /\ e[3] \in Artifacts
<1>1. CASE e = <<"boot">>
  BY <1>1
<1>2. CASE \E op \in {"get", "getBytes"}, h \in Hashes : e = <<op, h>>
  BY <1>2
<1>3. CASE \E h \in Hashes, a \in Artifacts : e = <<"row", h, a>>
  BY <1>3
<1> QED
  BY <1>1, <1>2, <1>3 DEF Events

\* What the registry hands out under a name is that name's artifact.
LEMMA HandsOut ==
  ASSUME NEW r \in Registers, NEW h \in Hashes
  PROVE  get(r, h) \in {h, Absent} /\ getBytes(r, h) \in Artifacts
BY DEF Registers, get, getBytes, loads, Artifacts

\* get keeps the caches so, and what it has handed out.
LEMMA GetKeeps ==
  ASSUME NEW r \in Registers, NEW h \in Hashes
  PROVE  /\ AfterGet(r, h) \in Registers
         /\ AfterGetBytes(r, h) \in Registers /\ AfterGetBytes(r, h).mods = r.mods
         /\ AfterGet(r, h).mods[h] = get(r, h)
         /\ \A g \in Hashes : r.mods[g] # Absent => AfterGet(r, h).mods[g] = r.mods[g]
<1>1. get(r, h) \in {h, Absent} /\ getBytes(r, h) \in Artifacts /\ get(r, h) \in Artifacts
  BY HandsOut DEF Artifacts
<1>2. AfterGetBytes(r, h) \in Registers /\ AfterGetBytes(r, h).mods = r.mods
  BY <1>1 DEF AfterGetBytes, Registers
<1>3. CASE has(r, h)
  BY <1>2, <1>3 DEF AfterGet, has, get
<1>4. CASE ~has(r, h)
  <2> DEFINE s == AfterGetBytes(r, h)
             v == get(r, h)
  <2>1. AfterGet(r, h) = [s EXCEPT !.mods[h] = v]
    BY <1>4 DEF AfterGet
  <2>2. s \in Registers /\ s.mods = r.mods /\ v \in {h, Absent} /\ v \in Artifacts /\ r.mods[h] = Absent
    BY <1>1, <1>2, <1>4 DEF has
  <2> HIDE DEF s, v
  <2>3. [s EXCEPT !.mods[h] = v] \in Registers
    BY <2>2 DEF Registers
  <2>4. \A g \in Hashes : [s EXCEPT !.mods[h] = v].mods[g] = IF g = h THEN v ELSE r.mods[g]
    BY <2>2 DEF Registers
  <2> QED
    BY <1>2, <2>1, <2>2, <2>3, <2>4 DEF v
<1> QED
  BY <1>3, <1>4

\* No event puts another artifact under a name.
LEMMA ThenKeeps ==
  ASSUME NEW r \in Registers, NEW e \in Events
  PROVE  Then(r, e) \in Registers
<1>1. CASE e[1] = "get" /\ e[2] \in Hashes
  BY <1>1, GetKeeps DEF Then
<1>2. CASE e[1] = "getBytes" /\ e[2] \in Hashes
  BY <1>2, GetKeeps DEF Then
<1>3. CASE e[1] = "boot"
  BY <1>3, RegistryAssumption DEF Then, seedBuiltins, Restarted, Registers, Artifacts
<1>4. CASE e[1] = "row" /\ e[2] \in Hashes /\ e[3] \in Artifacts
  BY <1>4 DEF Then, Registers
<1> QED
  BY <1>1, <1>2, <1>3, <1>4, EventKinds

\* Nor does any history: a fold of events over the caches of a restart.
LEMMA HistoriesKeep ==
  ASSUME NEW n \in Nat, NEW base \in Registers, NEW events, DOMAIN events = 1 .. n, \A k \in 1 .. n : events[k] \in Events
  PROVE  FoldLeft(Then, base, events) \in Registers
<1> DEFINE Is(h) == h = [s \in SUBSET (1 .. n) |->
                            IF s = {} THEN base ELSE Then(h[s \ {Max(s)}], events[Max(s)])]
           iter == CHOOSE h : Is(h)
           step == [k \in 1 .. n |-> [r \in Registers |-> Then(r, events[k])]]
<1>1. \A k \in 1 .. n : \A r \in Registers : step[k][r] = Then(r, events[k]) /\ step[k][r] \in Registers
  BY ThenKeeps
<1> HIDE DEF step
<1>2. Stepped(n, Registers, step)
  BY <1>1 DEF Stepped
<1>3. PICK h \in [SUBSET (1 .. n) -> Registers] : Folded(n, base, step, h)
  BY <1>2, FoldExists
<1>4. ASSUME NEW s \in SUBSET (1 .. n), s # {} PROVE Max(s) \in 1 .. n /\ s \ {Max(s)} \in SUBSET (1 .. n)
  BY <1>4, MaxIn
<1>5. \A s \in SUBSET (1 .. n) : h[s] = IF s = {} THEN base ELSE Then(h[s \ {Max(s)}], events[Max(s)])
  BY <1>1, <1>3, <1>4 DEF Folded
<1>6. Is(h)
  BY <1>3, <1>5
<1>7. Is(iter)
  BY <1>6
<1>8. FoldLeft(Then, base, events) = iter[1 .. n]
  BY DEF FoldLeft, MapThenFoldSet
<1> HIDE DEF iter
<1>9. \A s \in SUBSET (1 .. n) : iter[s] = IF s = {} THEN base ELSE Then(iter[s \ {Max(s)}], events[Max(s)])
  BY <1>7
<1> HIDE DEF Is
<1> DEFINE S == {k \in 0 .. n : iter[1 .. k] \in Registers}
<1>10. 0 \in S
  <2>1. 1 .. 0 = {} /\ 1 .. 0 \in SUBSET (1 .. n)
    OBVIOUS
  <2>2. iter[1 .. 0] = base
    BY <1>9, <2>1
  <2>3. 0 \in 0 .. n
    OBVIOUS
  <2> QED
    BY <2>2, <2>3
<1>11. ASSUME NEW k \in 0 .. n - 1, k \in S PROVE k + 1 \in S
  <2>1. Max(1 .. k + 1) = k + 1
    BY DEF Max
  <2>2. (1 .. k + 1) \ {k + 1} = 1 .. k /\ 1 .. k + 1 # {} /\ 1 .. k + 1 \in SUBSET (1 .. n)
    <3>1. (1 .. k + 1) \ {k + 1} = 1 .. k
      OBVIOUS
    <3>2. k + 1 \in 1 .. k + 1 /\ 1 .. k + 1 \subseteq 1 .. n
      OBVIOUS
    <3> QED
      BY <3>1, <3>2
  <2>3. iter[1 .. k + 1] = Then(iter[1 .. k], events[k + 1])
    BY <1>9, <2>1, <2>2
  <2>4. k + 1 \in 1 .. n /\ k + 1 \in 0 .. n
    OBVIOUS
  <2> QED
    BY <1>11, <2>3, <2>4, ThenKeeps
<1>12. n \in S
  <2> HIDE DEF S
  <2>1. \A k \in 0 .. n : k \in S
    BY <1>10, <1>11, EveryTurn
  <2> QED
    BY <2>1
<1> QED
  BY <1>8, <1>12

\* Verification runs the artifact that the job pins.
LEMMA RegistryPins == Pinned
<1> SUFFICES ASSUME NEW r \in Reached, NEW h \in Hashes
             PROVE  /\ get(r, h) \in {h, Absent}
                    /\ get(r, h) = h => \A e \in Events \ {<<"boot">>} : get(Then(AfterGet(r, h), e), h) = h
                    /\ h \in Builtins /\ r.rows[h] \in {h, Absent} => get(Then(r, <<"boot">>), h) = h
  BY DEF Pinned
<1>1. r \in Registers
  <2>1. PICK table \in [Hashes -> Artifacts], events \in Histories : r = FoldLeft(Then, Restarted(table), events)
    BY DEF Reached
  <2>2. PICK n \in 0 .. 3 : events \in [1 .. n -> Events]
    BY DEF Histories
  <2>3. Restarted(table) \in Registers
    BY DEF Restarted, Registers, Artifacts
  <2>4. n \in Nat /\ DOMAIN events = 1 .. n /\ \A k \in 1 .. n : events[k] \in Events
    BY <2>2
  <2> QED
    BY <2>1, <2>3, <2>4, HistoriesKeep
<1>2. get(r, h) \in {h, Absent}
  BY <1>1, HandsOut
<1>3. ASSUME get(r, h) = h, NEW e \in Events, e # <<"boot">> PROVE get(Then(AfterGet(r, h), e), h) = h
  <2> DEFINE s == AfterGet(r, h)
  <2>1. s \in Registers /\ s.mods[h] = h /\ h # Absent
    BY <1>1, <1>3, GetKeeps, RegistryAssumption
  <2> HIDE DEF s
  <2>2. Then(s, e).mods[h] = h
    <3>1. CASE e[1] = "get" /\ e[2] \in Hashes
      BY <2>1, <3>1, GetKeeps DEF Then
    <3>2. CASE e[1] = "getBytes" /\ e[2] \in Hashes
      BY <2>1, <3>2, GetKeeps DEF Then
    <3>3. CASE e[1] = "row" /\ e[2] \in Hashes /\ e[3] \in Artifacts
      BY <2>1, <3>3 DEF Then, Registers
    <3> QED
      BY <1>3, <3>1, <3>2, <3>3, EventKinds
  <2> QED
    BY <2>1, <2>2 DEF get, s
<1>4. ASSUME h \in Builtins, r.rows[h] \in {h, Absent} PROVE get(Then(r, <<"boot">>), h) = h
  <2>1. Then(r, <<"boot">>) = seedBuiltins(Restarted(r.rows))
    BY DEF Then
  <2>2. h # Absent
    BY RegistryAssumption
  <2> QED
    BY <1>4, <2>1, <2>2 DEF seedBuiltins, Restarted, get, getBytes, loads
<1> QED
  BY <1>2, <1>3, <1>4

\* However a call ends, the finally gives back what was got.
LEMMA CallsGiveBack == MemoryKept
<1> SUFFICES ASSUME NEW name \in DOMAIN CallShape, NEW end \in Ends, NEW short \in 0 .. Buffers(name)
             PROVE  LET c == Called(name, short, end)
                    IN  /\ short = 0 => c.kept = 0
                        /\ c.kept < Buffers(name)
                        /\ c.kept > 0 => ~c.answers
  BY DEF MemoryKept
<1>1. CallShape[name].inputs \in 1 .. 2 /\ CallShape[name].out \in BOOLEAN
  <2>1. \/ name = "evaluate_seed" \/ name = "evaluate_candidate" \/ name = "init_state"
        \/ name = "advance_bucket" \/ name = "best_of_state" \/ name = "trace_candidate"
        \/ name = "render_bucket" \/ name = "evaluate_range"
    BY Zenon DEF CallShape
  <2>2. /\ CallShape["evaluate_seed"].inputs = 1 /\ CallShape["evaluate_seed"].out = FALSE
        /\ CallShape["evaluate_candidate"].inputs = 2 /\ CallShape["evaluate_candidate"].out = FALSE
    BY DEF CallShape
  <2>3. /\ CallShape["init_state"].inputs = 2 /\ CallShape["init_state"].out = TRUE
        /\ CallShape["advance_bucket"].inputs = 2 /\ CallShape["advance_bucket"].out = TRUE
        /\ CallShape["best_of_state"].inputs = 2 /\ CallShape["best_of_state"].out = TRUE
    BY DEF CallShape
  <2>4. /\ CallShape["trace_candidate"].inputs = 2 /\ CallShape["trace_candidate"].out = TRUE
        /\ CallShape["render_bucket"].inputs = 1 /\ CallShape["render_bucket"].out = TRUE
        /\ CallShape["evaluate_range"].inputs = 1 /\ CallShape["evaluate_range"].out = TRUE
    BY DEF CallShape
  <2>5. 1 \in 1 .. 2 /\ 2 \in 1 .. 2
    OBVIOUS
  <2> HIDE DEF CallShape
  <2> QED
    BY <2>1, <2>2, <2>3, <2>4, <2>5, ZenonT(60)
<1>2. Buffers(name) \in Nat /\ Buffers(name) > 0
  BY <1>1 DEF Buffers
<1> DEFINE inputs == CallShape[name].inputs
           dies == short \in 1 .. inputs \/ (short = Buffers(name) /\ CallShape[name].checked)
<1>3. Called(name, short, end) = [answers |-> ~dies /\ end = "value", kept |-> IF dies THEN short - 1 ELSE 0]
  BY DEF Called
<1>4. dies => short > 0
  BY <1>1, <1>2
<1> HIDE DEF dies
<1>5. CASE dies
  <2>1. Called(name, short, end).kept = short - 1
    BY <1>3, <1>5
  <2>2. ~Called(name, short, end).answers
    BY <1>5, Zenon DEF Called, dies
  <2>3. short \in Int /\ short <= Buffers(name) /\ short > 0
    BY <1>2, <1>4, <1>5
  <2> QED
    BY <1>2, <2>1, <2>2, <2>3
<1>6. CASE ~dies
  BY <1>2, <1>3, <1>6
<1> QED
  BY <1>5, <1>6

\* What the gate admits serves, answers alike and gives its memory back, the
\* registry runs what the job pins, and rows stay their publisher's: for any number
\* of probed buckets, answers, artifacts and wallets (conformance.ts, moduleRegistry.ts).
THEOREM GateIsSound == Spec => []GateSound
<1>1. GateSound
  BY AdmittedServes, AdmittedRepeats, RegisterKeeps, RegistryPins, CallsGiveBack DEF GateSound
<1> QED
  BY <1>1, PTL
=============================================================================
