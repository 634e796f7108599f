------------------------------- MODULE InputGate -------------------------------
(***************************************************************************)
(* The front door (security/normalize.py, denylist.py, classifier.py,      *)
(* input_gate.py).  A question is a sequence of words.  Each has its       *)
(* length, the letters of a longer word that carries it, before and after  *)
(* ("acts" carries "act"), and the ways it is disguised: "folded" (case,   *)
(* accents, lookalikes, digits for letters: a letter for a letter) or      *)
(* "spaced" (letter by letter).  A word stands for the spellings the rules *)
(* group with it.  What only a rule on the raw text can see is the         *)
(* question's structure: the rule it forges a tag or a role line for, and  *)
(* whether in a spelling that layer 1 would have to undo.                  *)
(***************************************************************************)
EXTENDS EventLog

Carried(before, word, chars, after, disguise) ==
    [word |-> word, chars |-> chars, before |-> before, after |-> after, disguise |-> disguise]

Word(word, chars, disguise) == Carried(0, word, chars, 0, disguise)

Structure(rule, disguised) == [rule |-> rule, disguised |-> disguised]

Question(words, structure) == [words |-> words, structure |-> structure]

\* Words take up at least one character each.
Disguised ==
    [word : STRING, chars : Nat \ {0}, before : Nat, after : Nat,
     disguise : SUBSET {"folded", "spaced"}]

IsQuestion(question) ==
    question \in [words : Seq(Disguised), structure : [rule : STRING, disguised : BOOLEAN]]

-------------------------------------------------------------------------------
(* Layer 1.  Normalised carries two forms; what an unfolded question would *)
(* give in the same two is folding_required's counterfactual.              *)

\* A rule can read the word in this form.
Legible(word, form) ==
    /\ "folded" \in word.disguise => form.folded
    /\ "spaced" \in word.disguise => form.squeezed

\* How many characters the word and what carries it take up, squeezed
\* together or not.
Width(word, squeezed) ==
    LET letters == word.before + word.chars + word.after IN
    IF "spaced" \in word.disguise /\ ~squeezed THEN 2 * letters - 1 ELSE letters

\* The characters between the words at i and j: the end of what carries the
\* one, the words between, and the beginning of what carries the other.
Between(words, squeezed, i, j) ==
    words[i].after + words[j].before
    + FoldLeft(LAMBDA sum, w : sum + Width(w, squeezed), 0, SubSeq(words, i + 1, j - 1))
    + (IF squeezed THEN 0 ELSE j - i)

\* Mutant: the rules keep their head anchor for the squeezed form, whose one
\* word boundary is the beginning of the message.
Anchored_bug(words, i, squeezed) == words[i].before = 0 /\ (squeezed => i = 1)

\* A payload may begin here: where a word begins, if the form still has words
\* (_squeezed_pattern).
Anchored(words, i, squeezed) == squeezed \/ words[i].before = 0

\* normalise, and the same two forms with nothing folded.
MatchingForms(folded) == {[folded |-> folded, squeezed |-> s] : s \in BOOLEAN}

-------------------------------------------------------------------------------
(* Layer 2.                                                                *)

MAX_GAP_CHARS == 20

\* One word of a payload: how far it may be from the word before it.
Gap(words) == [within |-> MAX_GAP_CHARS, words |-> words]
Tight(words) == [within |-> 3, words |-> words]

Rule(id, alternatives) == [id |-> id, raw |-> FALSE, alternatives |-> alternatives]
RawRule(id) == [id |-> id, raw |-> TRUE, alternatives |-> {}]

Scope == {"all", "previous", "earlier", "your", "system", "original"}
Aside == {"your", "system", "developer"}
Suspending == {"disable", "turn off"}

RULES ==
    <<Rule("instruction-override",
           {<<Gap({"ignore"}), Gap(Scope), Gap({"instruction", "rule", "prompt"})>>}),
      Rule("prompt-extraction",
           {<<Gap({"repeat"}), Gap(Aside), Gap({"prompt", "instruction", "message"})>>,
            <<Gap({"repeat"}), Gap({"original", "first", "previous"}),
              Gap({"prompt", "instruction"})>>}),
      Rule("persona-override",
           {<<Tight({"you"}), Tight({"are"}), Tight({"now"})>>,
            <<Tight({"from"}), Tight({"now"}), Tight({"on"}), Tight({"you"})>>,
            <<Tight({"pretend"}), Tight({"to", "you"})>>,
            <<Tight({"role"}), Tight({"play"}), Tight({"as"})>>,
            <<Tight({"act"}), Tight({"as"}), Tight({"if"})>>,
            <<Tight({"new"}), Tight({"persona"})>>,
            <<Tight({"stop"}), Tight({"being"}), [within |-> 10, words |-> {"assistant"}]>>}),
      Rule("guardrail-suspension",
           {<<Gap(Suspending), Gap({"guardrail"})>>,
            <<Gap(Suspending), Gap({"your"}), Gap({"guardrail", "filter"})>>}),
      Rule("unrestricted-mode",
           {<<Tight({"developer", "unfiltered"}), Tight({"mode"})>>,
            <<Tight({"jailbreak"})>>,
            <<Tight({"do"}), Tight({"anything"}), Tight({"now"})>>}),
      RawRule("delimiter-forgery"),
      RawRule("role-spoof")>>

ASSUME NoneIsNoRule == None \notin {RULES[i].id : i \in DOMAIN RULES} \cup {"denylist", "classifier"}

\* Some words of the question, in order and close enough, are the payload's.
Spells(words, payload, form) ==
    \E place \in [DOMAIN payload -> DOMAIN words] :
       /\ \A i \in DOMAIN payload :
             /\ words[place[i]].word \in payload[i].words
             /\ Legible(words[place[i]], form)
             /\ i > 1 =>
                   /\ place[i - 1] < place[i]
                   /\ Between(words, form.squeezed, place[i - 1], place[i]) <= payload[i].within
       /\ Anchored(words, place[1], form.squeezed)

\* A raw rule sees what was typed, so a disguised structure trips none.
Trips(question, rule, folded) ==
    IF rule.raw THEN question.structure = Structure(rule.id, FALSE)
    ELSE \E payload \in rule.alternatives, form \in MatchingForms(folded) :
            Spells(question.words, payload, form)

\* denylisted: the first rule tripped, or None.
Denylisted(question, folded) ==
    LET tripped == {i \in DOMAIN RULES : Trips(question, RULES[i], folded)} IN
    IF tripped = {} THEN None ELSE RULES[Min(tripped)].id

\* input_gate.folding_required: caught only because layer 1 folded it.
FoldingRequired(question) ==
    Denylisted(question, FALSE) = None /\ Denylisted(question, TRUE) # None

-------------------------------------------------------------------------------
(* Layer 3 and the gate.  What the model does is a reply, a sequence of    *)
(* words ("bullet" for one without a letter), or Down for any exception.   *)

Down == <<"down">>

Warning(name) == <<Event(name, None, 1, <<>>)>>

\* classifier._verdict: the first word with a letter in it, or nothing.
ReplyVerdict(reply) ==
    LET said == SelectSeq(reply, LAMBDA w : w # "bullet") IN
    IF said # <<>> /\ said[1] = "YES" THEN "injection"
    ELSE IF said # <<>> /\ said[1] = "NO" THEN "safe" ELSE "undecided"

\* classifier.classify: the verdict, and what a failure leaves in the log.
Classify(reply) ==
    IF reply = Down
    THEN [verdict |-> "undecided", log |-> Warning("gate_classifier_unavailable")]
    ELSE [verdict |-> ReplyVerdict(reply),
          log |-> IF ReplyVerdict(reply) = "undecided" THEN Warning("gate_classifier_unparsed")
                  ELSE <<>>]

Screening(blocked, layer, rule, ran, verdict) ==
    [blocked |-> blocked, layer |-> layer, rule |-> rule,
     classifier_ran |-> ran, classifier_verdict |-> verdict]

\* input_gate._log
GateLine(screening) == Event("input_gate", None, 1, screening @@ ("latency_ms" :> 1))

\* input_gate.screen: what was decided and the lines that record it.
Screen(question, reply) ==
    LET rule == Denylisted(question, TRUE)
        asked == Classify(reply)
        blocked == asked.verdict = "injection"
    IN IF rule # None
       THEN LET s == Screening(TRUE, "denylist", rule, FALSE, None)
            IN [screening |-> s, log |-> <<GateLine(s)>>]
       ELSE LET s == Screening(blocked, IF blocked THEN "classifier" ELSE None, None, TRUE,
                               asked.verdict)
            IN [screening |-> s, log |-> Append(asked.log, GateLine(s))]
===============================================================================
