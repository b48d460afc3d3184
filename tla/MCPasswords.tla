---------------------------- MODULE MCPasswords ----------------------------
(* What is stated of Passwords, over bounded inputs.                       *)
EXTENDS Passwords, TLC

(* Requests for passwords: the custom symbols are a few that tell apart a  *)
(* symbol, an ambiguous one and a letter.                                  *)
SomeRequests ==
    [classes : SUBSET Range(Classes),
     custom  : SUBSET {<<"symbol", "plain">>, <<"symbol", "ambiguous">>,
                       <<"lower", "similar">>},
     without : SUBSET {"similar", "ambiguous"}]

(* The handler never asks for nothing; the service need not be asked by    *)
(* it.                                                                     *)
AskedRequests == {Defaulted(req) : req \in SomeRequests}

(* Those for three classes, with no custom symbols.                        *)
ThreeClasses ==
    {req \in SomeRequests : /\ Cardinality(req.classes) = 3
                            /\ req.custom = {} /\ req.without = {"similar"}}

(* There is nothing to draw from, and rand.Int panics, exactly when only   *)
(* custom symbols are asked for and each of them is excluded.              *)
ASSUME EmptyCharset ==
    \A req \in AskedRequests :
        Charset(req) = {} <=>
            /\ req.classes = {"symbol"} /\ req.custom # {}
            /\ \A c \in req.custom : c[2] \in req.without

(* Overwriting keeps the length, and costs the password exactly the        *)
(* classes whose every character was overwritten, so that it may come out  *)
(* without one that was asked for, which password_generator.go:88 denies.  *)
(* Characters that were to be left out come back with a missing class.     *)
ASSUME EnforcedLosesWhatItOverwrites ==
    \A req \in ThreeClasses : \A password \in Drawn(req, 3) :
        LET missing == Missing(req, password)
            rest == SubSeq(password, Len(missing) + 1, Len(password))
        IN \A result \in Enforced(req, password) :
             /\ Len(result) = Len(password)
             /\ req.classes \ ClassesOf(Range(result)) =
                  (req.classes \ Range(missing)) \ ClassesOf(Range(rest))
             /\ (\E c \in Range(result) : c[2] \in req.without) => missing # <<>>

(* A password of the length that is asked for at least, too: its one upper *)
(* case letter comes first, where the number it lacks is written.          *)
ASSUME AClassCanBeLost ==
    LET req == [classes |-> {"upper", "lower", "number"}, custom |-> {}, without |-> {}]
        password == [i \in 1 .. Length(0) |->
                       IF i = 1 THEN <<"upper", "plain">> ELSE <<"lower", "plain">>]
    IN /\ password \in Drawn(req, Length(0))
       /\ \A result \in Enforced(req, password) : "upper" \notin ClassesOf(Range(result))

(* The service leaves exactly the lengths alone that the binding accepts.  *)
ASSUME LengthsBounded ==
    \A n \in -1 .. 200 :
        /\ Accepted(Length(n))
        /\ Accepted(n) <=> Length(n) = n

(* The score is a percentage, and does not fall with the length.           *)
ASSUME GeneratorScoreMonotone ==
    \A classes \in SUBSET Range(Classes), n \in 8 .. 128 :
        LET At(k) == GeneratorScore(k * Log2(PoolSize(classes)), classes, k)
        IN At(n) \in 0 .. 100 /\ At(n) <= At(n + 1)

(* Every sum of class sizes has its logarithm; one more class or one more  *)
(* character never lowers the score, one more pattern never raises it.     *)
ASSUME ScoreMonotone ==
    \A classes \in SUBSET Range(Classes), n \in 0 .. 20 :
        \A patterns \in SUBSET Patterns :
            LET score == Score(Entropy(n, classes, patterns)) IN
            /\ score \in 0 .. 4
            /\ score <= Score(Entropy(n + 1, classes, patterns))
            /\ \A c \in Range(Classes) :
                 score <= Score(Entropy(n, classes \cup {c}, patterns))
            /\ \A p \in Patterns :
                 score >= Score(Entropy(n, classes, patterns \cup {p}))

(* What the generator returns by default is at least strong, whichever     *)
(* single pattern it happens to show.                                      *)
ASSUME DefaultIsStrong ==
    \A p \in Patterns \ {"common"} :
        Score(Entropy(16, Range(Classes), {p})) >= 3

(* A password can be very weak and get no advice: the patterns that cost   *)
(* most, a common one and one of the keyboard, have none.                  *)
ASSUME WeakWithoutAdvice ==
    \E n \in 12 .. 16, patterns \in SUBSET Patterns :
        /\ Score(Entropy(n, Range(Classes), patterns)) = 0
        /\ Feedback(n, Range(Classes), patterns) = {}

(* ... but without those two, whoever is not told anything is strong.      *)
ASSUME NoAdviceMeansStrong ==
    \A n \in 1 .. 20, classes \in SUBSET Range(Classes) :
        \A patterns \in SUBSET (Patterns \ {"common", "keyboard"}) :
            Feedback(n, classes, patterns) = {} =>
                Score(Entropy(n, classes, patterns)) >= 3

(* The counting loops find a run exactly when there is one.                *)
Strings == UNION {[1 .. n -> 1 .. 4] : n \in 0 .. 5}

ASSUME RunsAreFound ==
    \A s \in Strings :
        /\ HasRepeated(s, 3) <=>
             \E i \in 1 .. Len(s) - 2 : \A j \in i .. i + 1 : s[j] = s[j + 1]
        /\ HasSequential(s, 4) <=>
             \E i \in 1 .. Len(s) - 3 : \A j \in i .. i + 2 :
                s[j + 1] - s[j] \in {-1, 1}

-----------------------------------------------------------------------------
(* Vaults of two entries and up to two secrets.                            *)
SomeSecrets == [entry : {1, 2}, type : {"password", "note"},
                score : {-1, 1, 3}, days : {-1, 0, 40}]

SomeVaults ==
    [entries : {{1, 2}}, flags : [{1, 2} -> SUBSET {"reused", "breached"}],
     secrets : {{}} \cup {{s, t} : s, t \in SomeSecrets}]

(* The score is a percentage, 100 for a vault without entries, and below   *)
(* 100 only if there is something to recommend.                            *)
ASSUME OverallScoreSound ==
    /\ \A flags \in [{} -> {{}}] :
         OverallScore(Counts([entries |-> {}, flags |-> flags, secrets |-> {}])) = 100
    /\ \A vault \in SomeVaults :
         LET counts == Counts(vault) IN
         /\ OverallScore(counts) \in 0 .. 100
         /\ OverallScore(counts) < 100 => Recommendations(counts) # {"excellent"}

(* No kind of trouble costs more than its points (service.go:137-165) as   *)
(* long as no entry has two secrets and flags are on entries with secrets; *)
(* secrets are counted, and entries divided by.                            *)
Points == [weak |-> 30, reused |-> 25, breached |-> 30, expired |-> 10, expiring |-> 5]

ASSUME DeductionsKeepToTheirPoints ==
    \A vault \in SomeVaults :
        LET counts == Counts(vault)
            owners == {s.entry : s \in vault.secrets}
        IN (/\ \A s, t \in vault.secrets : s.entry = t.entry => s = t
            /\ \A e \in vault.entries : vault.flags[e] # {} => e \in owners) =>
           \A kind \in DOMAIN Points :
               Deduction(counts[kind], counts, Points[kind]) <= Points[kind]

ASSUME DeductionsCanExceedTheirPoints ==
    \E vault \in SomeVaults, kind \in DOMAIN Points :
        Deduction(Counts(vault)[kind], Counts(vault), Points[kind]) > Points[kind]

(* A secret is in one group, with every other secret of its password that  *)
(* was found, and no group has a single one.                               *)
ASSUME ReusedIsReuse ==
    \A passwords \in [{1, 2, 3} -> {"p", "q"}], found \in SUBSET {1, 2, 3} :
        LET groups == Reused(passwords, found) IN
        /\ \A g \in groups : Cardinality(g) > 1 /\ g \subseteq found
        /\ \A s, t \in found :
             s # t => ((\E g \in groups : {s, t} \subseteq g) <=>
                       passwords[s] = passwords[t])

(* No answer is no verdict: a password is called compromised only on an    *)
(* answer that lists it, and an error is told.                             *)
ASSUME BreachOnEvidence ==
    \A status \in {"ok", "down", "none"}, suffixes \in SUBSET {"x", "y"} :
        LET result == Breach([status |-> status, suffixes |-> suffixes], "x") IN
        /\ result.compromised => ~result.error /\ "x" \in suffixes
        /\ ~result.compromised /\ ~result.error => "x" \notin suffixes
=============================================================================
