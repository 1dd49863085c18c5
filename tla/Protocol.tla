------------------------------ MODULE Protocol ------------------------------
(***************************************************************************)
(* What the parties send each other and sign (packages/protocol): numbers  *)
(* as decimal texts, canonical JSON, the signed part of a submission, what *)
(* the schemas let through, and a digest carried in a leaf's two fields.   *)
(*                                                                         *)
(* A JSON value is <<type, content>>; an object's content is the sequence  *)
(* of its entries as they were inserted.  Identifiers, hashes and their    *)
(* formats are single strings, signatures are terms.                       *)
(***************************************************************************)
EXTENDS Integers, Sequences, FiniteSets, SequencesExt

CONSTANTS
    BITS        \* of a u64, 64 in the code

ASSUME WidthAssumption == BITS \in Nat \ {0}

U64_MAX == 2 ^ BITS - 1
I64_MIN == -(2 ^ (BITS - 1))
I64_MAX == 2 ^ (BITS - 1) - 1

\* A decimal text: its sign, its leading zeros and what its digits say.
Texts    == [neg : BOOLEAN, zeros : 0 .. 1, abs : 0 .. 2 ^ BITS]
toI64(s) == IF s.neg THEN -s.abs ELSE s.abs
Text(v)  == [neg |-> v < 0, zeros |-> 0, abs |-> IF v < 0 THEN -v ELSE v]

u64String(s) == ~s.neg /\ s.zeros = 0 /\ s.abs <= U64_MAX
i64String(s) == s.zeros = 0 /\ (s.neg => s.abs > 0) /\ I64_MIN <= toI64(s) /\ toI64(s) <= I64_MAX

-----------------------------------------------------------------------------
\* The names of every signed field, in code-unit order.
Names == << "best_candidate_b64", "buckets_count", "candidate_b64", "chunk_id", "claimed_score", "duration_ms",
            "extremum_score", "job_id", "merkle_root", "mode", "nonce", "seeds_evaluated", "wallet_address",
            "witness_seed", "worker_spec_hash" >>
Rank(k) == CHOOSE i \in DOMAIN Names : Names[i] = k

Undefined == <<"undefined", "">>
Refused   == <<"throws">>
Quoted(s) == "'" \o s \o "'"

\* Parts with a comma between each two of them.
Joined(parts) ==
    FlattenSeq([i \in 1 .. 2 * Len(parts) - 1 |-> IF i % 2 = 1 THEN parts[(i + 1) \div 2] ELSE <<",">>])

Enclosed(open, parts, close) ==
    IF Refused \in ToSet(parts) THEN Refused ELSE <<open>> \o Joined(parts) \o <<close>>

\* Keys sorted, entries without a value dropped, no number that may lose precision.
RECURSIVE canonicalJson(_)
canonicalJson(v) ==
    CASE v[1] \in {"null", "boolean", "number"} -> <<v[2]>>
      [] v[1] = "string"                        -> <<Quoted(v[2])>>
      [] v[1] \in {"undefined", "unsafe"}       -> Refused
      [] v[1] = "array" ->
            Enclosed("[", [i \in DOMAIN v[2] |-> canonicalJson(v[2][i])], "]")
      [] v[1] = "object" ->
            LET kept    == SelectSeq(v[2], LAMBDA e : e[2] # Undefined)
                entries == SortSeq(kept, LAMBDA a, b : Rank(a[1]) < Rank(b[1]))
                text(e) == LET val == canonicalJson(e[2]) IN IF val = Refused THEN Refused ELSE <<Quoted(e[1]), ":">> \o val
            IN  Enclosed("{", [i \in DOMAIN entries |-> text(entries[i])], "}")

-----------------------------------------------------------------------------
ResultFields == << "chunk_id", "worker_spec_hash", "mode", "extremum_score", "witness_seed", "best_candidate_b64",
                   "merkle_root", "buckets_count", "seeds_evaluated", "duration_ms", "nonce" >>
CandidateFields == << "job_id", "candidate_b64", "claimed_score", "nonce", "wallet_address" >>

Picked(fields, sub) == <<"object", [i \in DOMAIN fields |-> <<fields[i], sub[fields[i]]>>]>>

\* Mutant: the nonce of the lease is not signed.
resultSigningBytesLoose(sub) == canonicalJson(Picked(SubSeq(ResultFields, 1, 10), sub))

resultSigningBytes(sub)    == canonicalJson(Picked(ResultFields, sub))
candidateSigningBytes(sub) == canonicalJson(Picked(CandidateFields, sub))

\* A key of 64 bytes is the seed and the public key; its first half signs.
Seed(secret)                == secret.seed
walletFromSecretKey(secret) == Seed(secret)
Signed(bytes, secret)       == [by |-> Seed(secret), over |-> bytes]
Verified(sig, bytes, wallet) == sig.by = wallet /\ sig.over = bytes

signResult(sub, secret)                 == Signed(resultSigningBytes(sub), secret)
verifyResultSignature(sub, sig, wallet) == Verified(sig, resultSigningBytes(sub), wallet)
signCandidate(sub, secret)              == Signed(candidateSigningBytes(sub), secret)
verifyCandidateSignature(sub, sig)      == Verified(sig, candidateSigningBytes(sub), sub["wallet_address"][2])
signMessage(message, secret)                == Signed(<<message>>, secret)
verifyWalletSignature(message, sig, wallet) == Verified(sig, <<message>>, wallet)

-----------------------------------------------------------------------------
VerificationMode == {"witness_extremum", "output_hash", "training"}
effectiveMode(mode) == IF mode = Undefined THEN "witness_extremum" ELSE mode[2]

\* The fields that a submission of each mode must have, and those it must not.
Needs(mode) ==
    CASE mode = "witness_extremum" -> {"extremum_score", "witness_seed"}
      [] mode = "output_hash"      -> {}
      [] mode = "training"         -> {"extremum_score", "best_candidate_b64"}
Forbids(mode) ==
    CASE mode = "witness_extremum" -> {}
      [] mode = "output_hash"      -> {"extremum_score", "witness_seed"}
      [] mode = "training"         -> {"witness_seed"}

Optional == {"mode", "extremum_score", "witness_seed", "best_candidate_b64"}
Present(sub) == {f \in DOMAIN sub : sub[f] # Undefined}
ResultSubmission(sub) ==
    /\ ToSet(ResultFields) \ Optional \subseteq Present(sub)
    /\ Needs(effectiveMode(sub["mode"])) \subseteq Present(sub)
    /\ Forbids(effectiveMode(sub["mode"])) \cap Present(sub) = {}

\* What verification refuses to do without, once the route has compared the modes.
Reads(mode) ==
    CASE mode = "witness_extremum" -> {"witness_seed", "extremum_score"}
      [] mode = "output_hash"      -> {"buckets_count"}
      [] mode = "training"         -> {"extremum_score", "best_candidate_b64"}

ChunkAssignment(a) ==
    /\ u64String(a.range_start) /\ u64String(a.range_end)
    /\ toI64(a.range_end) > toI64(a.range_start)
    /\ a.bucket_size \in 1 .. 1048576

\* How many buckets verification draws of n, and what a client takes.
CHALLENGE_BUCKETS == 8
Lesser(a, b)      == IF a < b THEN a ELSE b
Greater(a, b)     == IF a < b THEN b ELSE a
Drawn(mode, n) ==
    IF mode = "training" THEN Lesser(n, Greater(CHALLENGE_BUCKETS, (n + 3) \div 4)) ELSE Lesser(CHALLENGE_BUCKETS, n)
Challenge(indices) == Cardinality(indices) \in 1 .. 64 /\ indices \subseteq Nat

\* A training chunk is 32 buckets; a client may commit to any number otherwise.
HonestBuckets(mode) == IF mode = "training" THEN {32} ELSE 1 .. 70

-----------------------------------------------------------------------------
Halves == 0 .. U64_MAX
SignedHalf(h) == IF h > I64_MAX THEN h - 2 ^ BITS ELSE h

\* Mutant: the score half is read unsigned too.
digest16ToWireUnsigned(d) == [score |-> Text(d[1]), seed |-> Text(d[2])]

digest16ToWire(d)    == [score |-> Text(SignedHalf(d[1])), seed |-> Text(d[2])]
wireToDigest16(wire) == <<toI64(wire.score) % 2 ^ BITS, toI64(wire.seed) % 2 ^ BITS>>
ChallengeLeaf(leaf)  == i64String(leaf.score) /\ u64String(leaf.seed)
-----------------------------------------------------------------------------
\* JSON values two deep, every object in both orders of its keys.
Atoms == {<<"null", "null">>, <<"boolean", "true">>, <<"number", "0">>, <<"string", "0">>, <<"unsafe", "0.5">>, Undefined}
Nested(values) ==
    {<<"array", s>> : s \in {<<>>} \cup {<<a>> : a \in values}}
    \cup {<<"object", s>> : s \in {<<>>} \cup {<< <<k, a>> >> : k \in {"mode", "nonce"}, a \in values}}
Paired(values) ==
    {<<"array", <<a, b>> >> : a, b \in values}
    \cup {<<"object", << <<kk[1], a>>, <<kk[2], b>> >> >> :
             kk \in {<<"mode", "nonce">>, <<"nonce", "mode">>}, a, b \in values}
Shallow == Atoms \cup Nested(Atoms) \cup Paired({<<"number", "0">>, <<"string", "0">>, Undefined})
JsonValues == Shallow \cup Nested(Shallow) \cup Paired(Shallow)

\* What a value says: an object is the set of the entries that have a value.
RECURSIVE Meaning(_)
Meaning(v) ==
    CASE v[1] = "array"  -> <<"array", [i \in DOMAIN v[2] |-> Meaning(v[2][i])]>>
      [] v[1] = "object" -> <<"object", {<<e[1], Meaning(e[2])>> : e \in {x \in ToSet(v[2]) : x[2] # Undefined}}>>
      [] OTHER           -> v

RECURSIVE Sayable(_)
Sayable(v) ==
    CASE v[1] = "array"  -> \A i \in DOMAIN v[2] : Sayable(v[2][i])
      [] v[1] = "object" -> \A e \in ToSet(v[2]) : e[2] = Undefined \/ Sayable(e[2])
      [] OTHER           -> v[1] \notin {"unsafe", "undefined"}

\* canonicalJson: values that say the same have the same bytes, in whatever order
\* they were built, and no two others do; what has no exact text is refused.
CanonicalStable ==
    LET said == {v \in JsonValues : Sayable(v)}
        both == {<<canonicalJson(v), Meaning(v)>> : v \in said}
    IN  /\ \A v \in JsonValues : canonicalJson(v) = Refused <=> ~Sayable(v)
        /\ Cardinality(both) = Cardinality({b[1] : b \in both})
        /\ Cardinality(both) = Cardinality({b[2] : b \in both})

-----------------------------------------------------------------------------
Is(x) == <<"string", x>>
Full  == [f \in ToSet(ResultFields) |-> IF f = "mode" THEN Is("training") ELSE Is("a")]

\* Submissions with every choice of the optional fields.
Shapes ==
    {[f \in DOMAIN Full |-> IF f \in gone THEN Undefined ELSE IF f = "mode" THEN Is(mode) ELSE Full[f]] :
        gone \in SUBSET Optional, mode \in VerificationMode}

\* Everything that differs from sub in one field.
Altered(sub) == {[sub EXCEPT ![f] = x] : f \in DOMAIN sub, x \in {Is("b"), Undefined}} \ {sub}

Keys == {[seed |-> "w1"], [seed |-> "w2"]}
Candidate == [f \in ToSet(CandidateFields) |-> IF f = "wallet_address" THEN Is("w1") ELSE Is("a")]

\* verifyResultSignature, verifyCandidateSignature, verifyWalletSignature: a
\* signature holds for what was signed and by whom, and for nothing that differs
\* from it in one field; one made for a result is none for a candidate or a
\* sign-in message.
SignatureBinds ==
    /\ \A sub \in Shapes, key \in Keys :
         LET sig == signResult(sub, key)
         IN  /\ \A k \in Keys : verifyResultSignature(sub, sig, walletFromSecretKey(k)) <=> k = key
             /\ \A other \in Altered(sub) : ~verifyResultSignature(other, sig, walletFromSecretKey(key))
             /\ ~verifyCandidateSignature(Candidate, sig)
             /\ ~verifyWalletSignature("sign in", sig, walletFromSecretKey(key))
    /\ \A key \in Keys :
         LET sig == signCandidate(Candidate, key)
         IN  /\ verifyCandidateSignature(Candidate, sig) <=> walletFromSecretKey(key) = Candidate["wallet_address"][2]
             /\ \A other \in Altered(Candidate) : other["wallet_address"] # Undefined => ~verifyCandidateSignature(other, sig)
             /\ ~verifyWalletSignature("sign in", sig, walletFromSecretKey(key))
             /\ verifyWalletSignature("sign in", signMessage("sign in", key), walletFromSecretKey(key))

\* resultSigningBytes: a submission that names no mode signs the bytes it signed
\* before there were modes, and none of the two fields that came with them.
LegacySigns ==
    LET old == SelectSeq(ResultFields, LAMBDA f : f \notin {"mode", "best_candidate_b64"})
    IN  \A sub \in Shapes :
          "mode" \notin Present(sub) /\ "best_candidate_b64" \notin Present(sub)
              => resultSigningBytes(sub) = canonicalJson(Picked(old, sub))

\* ResultSubmission: what the schema lets through in a mode has all that the
\* verification of that mode will not do without, so that no well-formed
\* submission is rejected for its shape after its lease is spent.
SchemaServes ==
    \A sub \in Shapes : ResultSubmission(sub) => Reads(effectiveMode(sub["mode"])) \subseteq Present(sub)

\* u64String and i64String: one text for each value of the width and no other.
TextsExact ==
    /\ {toI64(s) : s \in {t \in Texts : u64String(t)}} = 0 .. U64_MAX
    /\ {toI64(s) : s \in {t \in Texts : i64String(t)}} = I64_MIN .. I64_MAX
    /\ \A s, t \in Texts : toI64(s) = toI64(t) /\ ((u64String(s) /\ u64String(t)) \/ (i64String(s) /\ i64String(t))) => s = t

\* digest16ToWire: every digest passes the schema of a leaf, and comes back.
DigestsCarried ==
    \A d \in Halves \X Halves : ChallengeLeaf(digest16ToWire(d)) /\ wireToDigest16(digest16ToWire(d)) = d

\* Verification never draws more buckets than there are, and the client takes
\* every challenge it draws.
ChallengesTaken ==
    \A mode \in VerificationMode : \A n \in HonestBuckets(mode) :
        Drawn(mode, n) <= n /\ Challenge(0 .. Drawn(mode, n) - 1)

\* All of it: what one side writes, the other reads as it was meant.
MessagesAgree ==
    CanonicalStable /\ SignatureBinds /\ LegacySigns /\ SchemaServes /\ TextsExact /\ DigestsCarried /\ ChallengesTaken
=============================================================================
