----------------------------- MODULE Passwords -----------------------------
(***************************************************************************)
(* Passwords: how they are generated (internal/vault/password_generator.go *)
(* and SecretHandlers.GeneratePassword), judged                            *)
(* (internal/security/strength.go) and counted into the security score of  *)
(* a vault (internal/security/service.go).  Pure operators; the module     *)
(* MCCatalogue evaluates what is stated of them at the end.                *)
(*                                                                         *)
(* A character is its class and a mark: it looks like another one          *)
(* (il1Lo0O), is hard to place ({}[]()...) or neither.  Entropy is counted *)
(* in thousandths of a bit, rounded down.  Which random characters are     *)
(* drawn is a choice; the final shuffle is left out, as nothing here       *)
(* depends on the order.                                                   *)
(***************************************************************************)
EXTENDS Integers, Sequences, SequencesExt, FiniteSetsExt

Classes == <<"upper", "lower", "number", "symbol">>

Upper == {"upper"} \X {"plain", "similar"}
Lower == {"lower"} \X {"plain", "similar"}
Number == {"number"} \X {"plain", "similar"}
Symbol == {"symbol"} \X {"plain", "ambiguous"}
Characters == Upper \cup Lower \cup Number \cup Symbol

ClassesOf(characters) == {c[1] : c \in characters}

(* PasswordGenerateRequest, without its length. *)
GenerateRequest == [classes : SUBSET Range(Classes),
                    custom  : SUBSET Characters,
                    without : SUBSET {"similar", "ambiguous"}]

(* GeneratePassword, the handler: nothing selected selects everything. *)
Defaulted(req) ==
    IF req.classes = {} THEN [req EXCEPT !.classes = Range(Classes)] ELSE req

(* The binding of the request: a length that is left out is 0 and refused, *)
(* before the handler can make it 16.                                      *)
Accepted(n) == n \in 8 .. 128

(* The service itself: at least 8 characters, at most 128. *)
Length(n) == Max({8, Min({n, 128})})

(* CustomSymbols, when there are any, stand for the symbols. *)
ClassSet(req, class) ==
    CASE class = "upper"  -> Upper
      [] class = "lower"  -> Lower
      [] class = "number" -> Number
      [] class = "symbol" -> IF req.custom # {} THEN req.custom ELSE Symbol

(* removeChars *)
Without(characters, marks) == {c \in characters : c[2] \notin marks}

(* The charset GeneratePassword draws from; it cannot draw from none. *)
Charset(req) ==
    Without(IF req.classes = {} THEN Upper \cup Lower \cup Number
            ELSE UNION {ClassSet(req, class) : class \in req.classes},
            req.without)

(* generateSecurePassword *)
Drawn(req, n) == [1 .. n -> Charset(req)]

(* The selected classes a password lacks, in the order they are looked at. *)
Missing(req, password) ==
    SelectSeq(Classes, LAMBDA class : class \in req.classes \ ClassesOf(Range(password)))

(* enforceCharacterTypes: they are written over the first characters.      *)
Enforced(req, password) ==
    LET missing == Missing(req, password)
        k == Min({Len(missing), Len(password)})
    IN {[i \in 1 .. Len(password) |->
            IF i <= k THEN choice[i] ELSE password[i]] :
        choice \in {f \in [1 .. k -> Characters] :
                      \A i \in 1 .. k : f[i] \in ClassSet(req, missing[i])}}

(* calculateStrengthScore, of 0 to 100, by entropy, classes and length. *)
GeneratorScore(entropy, classes, n) ==
    Min({100, (entropy * 3) \div 2000 + 5 * Cardinality(classes)
                + IF n >= 16 THEN 10 ELSE IF n >= 12 THEN 5 ELSE 0})

-----------------------------------------------------------------------------
(* AnalyzePassword: the pool the classes of a password are drawn from, ... *)
PoolSize(classes) ==
    (IF "lower" \in classes THEN 26 ELSE 0)
        + (IF "upper" \in classes THEN 26 ELSE 0)
        + (IF "number" \in classes THEN 10 ELSE 0)
        + (IF "symbol" \in classes THEN 32 ELSE 0)

(* ... and log2 of its size, in thousandths. *)
Log2(n) ==
    CASE n = 0 -> 0     [] n = 10 -> 3321  [] n = 26 -> 4700  [] n = 32 -> 5000
      [] n = 36 -> 5169 [] n = 42 -> 5392  [] n = 52 -> 5700  [] n = 58 -> 5857
      [] n = 62 -> 5954 [] n = 68 -> 6087  [] n = 84 -> 6392  [] n = 94 -> 6554

(* The counting loop of hasSequential and hasRepeated, over the characters *)
(* that the next one continues.                                            *)
LongRun(length, n, continued) ==
    LET count[i \in 1 .. length] ==
            IF i - 1 \in continued THEN count[i - 1] + 1 ELSE 1
    IN \E i \in 1 .. length : count[i] >= n

(* Up or down: the direction may change on the way. *)
HasSequential(s, n) ==
    LongRun(Len(s), n, {i \in 1 .. Len(s) - 1 : s[i + 1] - s[i] \in {-1, 1}})

HasRepeated(s, n) ==
    LongRun(Len(s), n, {i \in 1 .. Len(s) - 1 : s[i + 1] = s[i]})

(* A common pattern and a common word are looked up in two lists.         *)
Patterns == {"common", "word", "sequential", "repeated", "keyboard"}

(* applyPatternPenalties: each pattern but the words takes its share of    *)
(* what is left.                                                           *)
Penalised(entropy, patterns) ==
    LET Share(pattern, e, tenths) ==
            IF pattern \in patterns THEN (e * tenths) \div 10 ELSE e
    IN Share("keyboard",
             Share("repeated",
                   Share("sequential",
                         Share("common", entropy, 5), 8), 9), 7)

Entropy(n, classes, patterns) == Penalised(n * Log2(PoolSize(classes)), patterns)

(* ScoreVeryWeak is 0, ScoreVeryStrong 4. *)
Score(entropy) ==
    Cardinality({bits \in {28, 35, 60, 80} : entropy >= bits * 1000})

(* generateFeedback, by topic. *)
Feedback(n, classes, patterns) ==
    (IF n < 12 THEN {"length"} ELSE {})
        \cup (Range(Classes) \ classes)
        \cup (patterns \ {"common", "keyboard"})

(* CheckHIBP: what comes of the answer to a range query, none for no       *)
(* answer.                                                                 *)
Breach(answer, suffix) ==
    [compromised |-> answer.status = "ok" /\ suffix \in answer.suffixes,
     error       |-> answer.status # "ok"]

-----------------------------------------------------------------------------
(* A vault, as far as its security is looked at: entries with the flags of *)
(* a check, and secrets with a score, -1 for none, and the days to their   *)
(* expiry, a large number for never.                                       *)
WeakSecrets(vault) ==
    {s \in vault.secrets : s.type = "password" /\ s.score \in {0, 1}}
ExpiredSecrets(vault) == {s \in vault.secrets : s.days < 0}
ExpiringSecrets(vault) == {s \in vault.secrets : s.days \in 0 .. 29}

(* AnalyzeVaultSecurity counts entries and secrets in seven statements.    *)
Counts(vault) ==
    [total    |-> Cardinality(vault.entries),
     secrets  |-> Cardinality({s.entry : s \in vault.secrets}),
     weak     |-> Cardinality(WeakSecrets(vault)),
     expired  |-> Cardinality(ExpiredSecrets(vault)),
     expiring |-> Cardinality(ExpiringSecrets(vault)),
     reused   |-> Cardinality({e \in vault.entries : "reused" \in vault.flags[e]}),
     breached |-> Cardinality({e \in vault.entries : "breached" \in vault.flags[e]})]

(* calculateOverallScore *)
Deduction(n, counts, points) ==
    IF counts.secrets > 0 THEN (n * points) \div counts.secrets ELSE 0

OverallScore(counts) ==
    IF counts.total = 0 THEN 100
    ELSE Max({0, 100 - Deduction(counts.weak, counts, 30)
                     - Deduction(counts.reused, counts, 25)
                     - Deduction(counts.breached, counts, 30)
                     - Deduction(counts.expired, counts, 10)
                     - Deduction(counts.expiring, counts, 5)})

(* generateRecommendations, by topic. *)
Recommendations(counts) ==
    LET topics == {t \in {"breached", "weak", "reused", "expired", "expiring"} :
                     counts[t] > 0}
    IN IF topics = {} THEN {"excellent"} ELSE topics

(* DetectReusedPasswords: the secrets of each password, of the ones the    *)
(* user has an entry for.                                                  *)
Reused(passwords, found) ==
    LET Group(p) == {s \in DOMAIN passwords \cap found : passwords[s] = p}
    IN {Group(p) : p \in {q \in Range(passwords) : Cardinality(Group(q)) > 1}}
=============================================================================
