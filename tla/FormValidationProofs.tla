------------------------ MODULE FormValidationProofs ------------------------
(***************************************************************************)
(* Proofs about FormValidation, for any documents, inputs and values: the  *)
(* form's state is as declared, what is let out as valid is valid, and the *)
(* page tells the truth of an input that is untouched since its check.     *)
(*                                                                         *)
(* The argument.  What an attribute asks is what the rules set by its      *)
(* adapter ask (AdapterAgrees), so the check of an input that the script   *)
(* can follow fails exactly when the attributes ask for something else,    *)
(* and is otherwise what is known of the address's answer (CheckIs).  The  *)
(* rules of such an input never change once parsed (RulesInv), what is     *)
(* kept of an answer is what the address says of the value it was asked    *)
(* for (Answered): together they make a check right (ChecksAre), and       *)
(* nothing but a check makes an input fresh or sends the form.             *)
(***************************************************************************)
EXTENDS FormValidation, SequenceTheorems, FiniteSetTheorems, WellFoundedInduction, TLAPS
-----------------------------------------------------------------------------
(* What an attribute asks is what the rules its adapter sets ask.          *)

\* The adapters, one by one.
LEMMA AdaptersAre ==
    /\ DOMAIN Adapters = 1..17 /\ Len(Adapters) = 17
    /\ Adapters[1] = AddSingleVal("extension", "extension", "accept")
    /\ Adapters[2] = AddSingleVal("regex", "pattern", "regex")
    /\ Adapters[3] = AddBool("creditcard") /\ Adapters[4] = AddBool("date") /\ Adapters[5] = AddBool("digits")
    /\ Adapters[6] = AddBool("email") /\ Adapters[7] = AddBool("number") /\ Adapters[8] = AddBool("url")
    /\ Adapters[9] = AddMinMax("length", "minlength", "maxlength", "rangelength")
    /\ Adapters[10] = AddMinMax("range", "min", "max", "range")
    /\ Adapters[11] = AddMinMax("minlength", "minlength", None, None)
    /\ Adapters[12] = AddMinMax("maxlength", "minlength", "maxlength", None)
    /\ Adapters[13] = Add("equalto", "equalto", <<>>)
    /\ Adapters[14] = Add("required", "required", <<>>)
    /\ Adapters[15] = Add("remote", "remote", <<>>)
    /\ Adapters[16] = Add("password", "password", <<>>)
    /\ Adapters[17] = AddSingleVal("fileextensions", "extensions", "extension")
BY DEF Adapters

\* The parameter of an attribute, undefined when it is not given.
Given(f, a, p) == IF p \in DOMAIN doc.attrs[f][a] THEN doc.attrs[f][a][p] ELSE None

\* What each adapter sets, one by one.
LEMMA AdaptIs ==
    ASSUME NEW f
    PROVE  /\ Adapt(f, 1) = Setting("accept", Given(f, "extension", "extension"))
           /\ Adapt(f, 2) = Setting("regex", Given(f, "regex", "pattern"))
           /\ Adapt(f, 3) = Setting("creditcard", TRUE)
           /\ Adapt(f, 4) = Setting("date", TRUE)
           /\ Adapt(f, 5) = Setting("digits", TRUE)
           /\ Adapt(f, 6) = Setting("email", TRUE)
           /\ Adapt(f, 7) = Setting("number", TRUE)
           /\ Adapt(f, 8) = Setting("url", TRUE)
           /\ Adapt(f, 9) = MinMaxRule(<<"minlength", "maxlength", "rangelength">>,
                                       Given(f, "length", "min"), Given(f, "length", "max"))
           /\ Adapt(f, 10) = MinMaxRule(<<"min", "max", "range">>,
                                        Given(f, "range", "min"), Given(f, "range", "max"))
           /\ Adapt(f, 11) = MinMaxRule(<<"minlength", None, None>>,
                                        Given(f, "minlength", "min"), Given(f, "minlength", "max"))
           /\ Adapt(f, 12) = MinMaxRule(<<"minlength", "maxlength", None>>,
                                        Given(f, "maxlength", "min"), Given(f, "maxlength", "max"))
           /\ Adapt(f, 13) = EqualTo(f, Given(f, "equalto", "other"))
           /\ Adapt(f, 14) = Required(f)
           /\ Adapt(f, 15) = Remote(f, Given(f, "remote", "additionalfields"))
           /\ Adapt(f, 16) = Password(Given(f, "password", "min"), Given(f, "password", "nonalphamin"),
                                      Given(f, "password", "regex"))
           /\ Adapt(f, 17) = Setting("extension", Given(f, "fileextensions", "extensions"))
<1>1. /\ Adapt(f, 1) = Setting("accept", Given(f, "extension", "extension"))
      /\ Adapt(f, 2) = Setting("regex", Given(f, "regex", "pattern"))
      /\ Adapt(f, 17) = Setting("extension", Given(f, "fileextensions", "extensions"))
  BY AdaptersAre DEF Adapt, Given, AddSingleVal, Add
<1>2. /\ Adapt(f, 3) = Setting("creditcard", TRUE)
      /\ Adapt(f, 4) = Setting("date", TRUE)
      /\ Adapt(f, 5) = Setting("digits", TRUE)
      /\ Adapt(f, 6) = Setting("email", TRUE)
      /\ Adapt(f, 7) = Setting("number", TRUE)
      /\ Adapt(f, 8) = Setting("url", TRUE)
  BY AdaptersAre DEF Adapt, AddBool, Add
<1>3. /\ Adapt(f, 9) = MinMaxRule(<<"minlength", "maxlength", "rangelength">>,
                                       Given(f, "length", "min"), Given(f, "length", "max"))
      /\ Adapt(f, 10) = MinMaxRule(<<"min", "max", "range">>,
                                        Given(f, "range", "min"), Given(f, "range", "max"))
  BY AdaptersAre DEF Adapt, AddMinMax, Add, Given
<1>4. /\ Adapt(f, 11) = MinMaxRule(<<"minlength", None, None>>,
                                        Given(f, "minlength", "min"), Given(f, "minlength", "max"))
      /\ Adapt(f, 12) = MinMaxRule(<<"minlength", "maxlength", None>>,
                                        Given(f, "maxlength", "min"), Given(f, "maxlength", "max"))
  BY AdaptersAre DEF Adapt, AddMinMax, Add, Given
<1>5. /\ Adapt(f, 13) = EqualTo(f, Given(f, "equalto", "other"))
      /\ Adapt(f, 14) = Required(f)
      /\ Adapt(f, 15) = Remote(f, Given(f, "remote", "additionalfields"))
  BY AdaptersAre DEF Adapt, Add, Given
<1>6. Adapt(f, 16) = Password(Given(f, "password", "min"), Given(f, "password", "nonalphamin"),
                                      Given(f, "password", "regex"))
  BY AdaptersAre DEF Adapt, Add, Given
<1> QED
  BY <1>1, <1>2, <1>3, <1>4, <1>5, <1>6

\* A text is blank when it has no length.
LEMMA ValueIs ==
    ASSUME NEW v \in Values
    PROVE  v.len \in Nat /\ v.odd \in Nat /\ v.odd <= v.len /\ (v = Blank <=> v.len = 0)
<1>1. v \in [len : Nat, odd : Nat] /\ v.odd <= v.len
  BY FormAssumption
<1>2. v.len = 0 => v.odd = 0
  BY <1>1
<1> QED
  BY <1>1, <1>2 DEF Blank

\* A parameter that is given is defined.
LEMMA GivenIs ==
    ASSUME doc \in Pages, NEW f \in Fields, NEW a \in DOMAIN doc.attrs[f], NEW p
    PROVE  /\ p \in DOMAIN doc.attrs[f][a] <=> Given(f, a, p) # None
           /\ Given(f, a, p) # None => Given(f, a, p) = doc.attrs[f][a][p]
           /\ a \in Bounded /\ Given(f, a, p) # None => Given(f, a, p) \in Nat
BY AttributeAssumption DEF Given

\* The methods, one by one.
Optional(f, outcome) == IF value[f] = Blank THEN "mismatch" ELSE outcome

\* What the methods that read no more than the length answer, and those of two inputs.
LEMMA OutcomeIs ==
    ASSUME NEW s, NEW f, NEW p
    PROVE  /\ Outcome(s, f, "__dummy__", p) = "pass"
           /\ Outcome(s, f, "required", p) = Passed(value[f].len > 0)
           /\ Outcome(s, f, "equalTo", p) = Passed(value[f] = value[p])
           /\ Outcome(s, f, "regex", p) = Passed(Regex(value[f], p))
           /\ Outcome(s, f, "nonalphamin", p) = Passed(NonAlphaMin(value[f], p))
           /\ Outcome(s, f, "minlength", p) = Optional(f, Passed(value[f].len >= p))
           /\ Outcome(s, f, "maxlength", p) = Optional(f, Passed(value[f].len <= p))
           /\ Outcome(s, f, "rangelength", p) = Optional(f, Passed(value[f].len \in p[1]..p[2]))
           /\ Outcome(s, f, "remote", p) =
                 Optional(f, IF s.old[f] = RemoteKey(f, p) THEN Passed(s.answer[f]) ELSE "pending")
<1>1. {"__dummy__", "required", "equalTo", "regex", "nonalphamin"} \subseteq Methods \ OptionalMethods
  BY DEF Methods, OptionalMethods
<1>2. OptionalMethods \subseteq Methods
  BY DEF Methods
<1>3. {"minlength", "maxlength", "rangelength", "remote", "min", "max", "range", "date", "digits", "email",
       "number", "url"} \subseteq OptionalMethods
  BY DEF OptionalMethods
<1>4. /\ Outcome(s, f, "__dummy__", p) = "pass"
      /\ Outcome(s, f, "required", p) = Passed(value[f].len > 0)
      /\ Outcome(s, f, "equalTo", p) = Passed(value[f] = value[p])
      /\ Outcome(s, f, "regex", p) = Passed(Regex(value[f], p))
      /\ Outcome(s, f, "nonalphamin", p) = Passed(NonAlphaMin(value[f], p))
  BY <1>1 DEF Outcome, Method
<1>5. \A m \in OptionalMethods : Outcome(s, f, m, p) = Optional(f, Method(s, f, m, p))
  BY <1>2 DEF Outcome, Optional
<1>6. /\ Method(s, f, "minlength", p) = Passed(value[f].len >= p)
      /\ Method(s, f, "maxlength", p) = Passed(value[f].len <= p)
      /\ Method(s, f, "rangelength", p) = Passed(value[f].len \in p[1]..p[2])
      /\ Method(s, f, "remote", p) = IF s.old[f] = RemoteKey(f, p) THEN Passed(s.answer[f]) ELSE "pending"
  BY DEF Method
<1> QED
  BY <1>3, <1>4, <1>5, <1>6

\* The methods that read the text answer what Conforms says.
LEMMA TextOutcome ==
    ASSUME NEW s, NEW f, NEW p, NEW m \in {"min", "max", "range", "date", "digits", "email", "number", "url"}
    PROVE  Outcome(s, f, m, p) = Optional(f, Passed(Conforms(m, p, value[f])))
<1>1. m \in OptionalMethods /\ m \in Methods
  BY DEF OptionalMethods, Methods
<1>2. Outcome(s, f, m, p) = Optional(f, Method(s, f, m, p))
  BY <1>1 DEF Outcome, Optional
<1>3. Method(s, f, m, p) = Passed(Conforms(m, p, value[f]))
  BY DEF Method
<1> QED
  BY <1>2, <1>3

\* Every rule that adapter i sets for f holds, that of remote apart.
Obeyed(s, f, i) ==
    \A m \in DOMAIN Adapt(f, i) : Adapt(f, i)[m] # None /\ m # "remote" =>
        Outcome(s, f, m, Adapt(f, i)[m]) \in {"pass", "mismatch"}

\* An adapter that sets one rule.
LEMMA ObeyedOne ==
    ASSUME NEW s, NEW f, NEW i, NEW m, NEW p, Adapt(f, i) = Setting(m, p), m # "remote", p # None
    PROVE  Obeyed(s, f, i) <=> Outcome(s, f, m, p) \in {"pass", "mismatch"}
BY DEF Obeyed, Setting

\* An adapter that sets none, or one that is left out for want of a parameter.
LEMMA ObeyedNone ==
    ASSUME NEW s, NEW f, NEW i,
           Adapt(f, i) = <<>> \/ \E m : Adapt(f, i) = Setting(m, None)
    PROVE  Obeyed(s, f, i)
<1>1. CASE Adapt(f, i) = <<>>
  BY <1>1 DEF Obeyed
<1>2. ASSUME NEW m, Adapt(f, i) = Setting(m, None)
      PROVE  Obeyed(s, f, i)
  BY <1>2 DEF Obeyed, Setting
<1> QED
  BY <1>1, <1>2

\* A page with input f, whose attributes adapter i follows.
CalledFor(f, i, a) ==
    /\ doc \in Pages /\ f \in Fields /\ value \in [Fields -> Values]
    /\ doc.early \subseteq present /\ present \subseteq Fields
    /\ Followed(f) /\ i \in Applied(f) /\ i \in 1..17 /\ a = Adapters[i].name /\ a \in DOMAIN doc.attrs[f]

Agrees(s, f, i, a) == Asks(a, doc.attrs[f][a], f, value[f]) <=> Obeyed(s, f, i)

\* The attributes whose methods read the text.
LEMMA ReadsText ==
    ASSUME NEW f, NEW s, NEW i \in 4..8, NEW a, CalledFor(f, i, a)
    PROVE  Agrees(s, f, i, a)
<1>1. a \in {"date", "digits", "email", "number", "url"} /\ Adapt(f, i) = Setting(a, TRUE)
  <2>1. a = Adapters[i].name
    BY DEF CalledFor
  <2>2. /\ Adapters[4].name = "date" /\ Adapters[5].name = "digits" /\ Adapters[6].name = "email"
        /\ Adapters[7].name = "number" /\ Adapters[8].name = "url"
    BY AdaptersAre DEF AddBool, Add
  <2>3. i = 4 \/ i = 5 \/ i = 6 \/ i = 7 \/ i = 8
    OBVIOUS
  <2> QED
    BY <2>1, <2>2, <2>3, AdaptIs
<1>2. Asks(a, doc.attrs[f][a], f, value[f]) <=> (value[f] # Blank => Conforms(a, TRUE, value[f]))
  BY <1>1 DEF Asks
<1>3. Obeyed(s, f, i) <=> Outcome(s, f, a, TRUE) \in {"pass", "mismatch"}
  BY <1>1, ObeyedOne, NoneAssumption
<1>4. Outcome(s, f, a, TRUE) = Optional(f, Passed(Conforms(a, TRUE, value[f])))
  <2>1. a \in {"min", "max", "range", "date", "digits", "email", "number", "url"}
    BY <1>1
  <2>2. ASSUME NEW p PROVE Outcome(s, f, a, p) = Optional(f, Passed(Conforms(a, p, value[f])))
    BY <2>1, TextOutcome
  <2> QED
    BY <2>2, Zenon
<1> QED
  BY <1>2, <1>3, <1>4 DEF Agrees, Optional, Passed

\* A regex without a pattern asks nothing.
LEMMA MatchesPattern ==
    ASSUME NEW f, NEW s, CalledFor(f, 2, "regex")
    PROVE  Agrees(s, f, 2, "regex")
<1> DEFINE p == Given(f, "regex", "pattern")
<1>1. Adapt(f, 2) = Setting("regex", p)
  BY AdaptIs
<1>2. Asks("regex", doc.attrs[f]["regex"], f, value[f])
         <=> (value[f] # Blank /\ p # None => Conforms("regex", p, value[f]))
  BY GivenIs DEF Asks, CalledFor
<1> HIDE DEF p
<1>3. CASE p = None
  BY <1>1, <1>2, <1>3, ObeyedNone DEF Agrees
<1>4. CASE p # None
  <2>1. Obeyed(s, f, 2) <=> Outcome(s, f, "regex", p) \in {"pass", "mismatch"}
    BY <1>1, <1>4, ObeyedOne
  <2>2. Outcome(s, f, "regex", p) = Passed(Regex(value[f], p))
    BY OutcomeIs
  <2> QED
    BY <1>2, <1>4, <2>1, <2>2 DEF Agrees, Passed, Regex
<1> QED
  BY <1>3, <1>4

\* The attributes whose bounds are of the length.
LEMMA BoundsLength ==
    ASSUME NEW f, NEW s, NEW i \in {9, 11, 12}, NEW a, CalledFor(f, i, a)
    PROVE  Agrees(s, f, i, a)
<1> DEFINE min == Given(f, a, "min")
           max == Given(f, a, "max")
<1>1. /\ i = 9 => a = "length" /\ Adapt(f, i) = MinMaxRule(<<"minlength", "maxlength", "rangelength">>, min, max)
      /\ i = 11 => a = "minlength" /\ Adapt(f, i) = MinMaxRule(<<"minlength", None, None>>, min, max)
      /\ i = 12 => a = "maxlength" /\ Adapt(f, i) = MinMaxRule(<<"minlength", "maxlength", None>>, min, max)
  <2>1. a = Adapters[i].name
    BY DEF CalledFor
  <2>2. Adapters[9].name = "length" /\ Adapters[11].name = "minlength" /\ Adapters[12].name = "maxlength"
    BY AdaptersAre DEF AddMinMax, Add
  <2> QED
    BY <2>1, <2>2, AdaptIs
<1>2. /\ "min" \in DOMAIN doc.attrs[f][a] <=> min # None
      /\ "max" \in DOMAIN doc.attrs[f][a] <=> max # None
      /\ min # None => min = doc.attrs[f][a].min /\ min \in Nat
      /\ max # None => max = doc.attrs[f][a].max /\ max \in Nat
  BY <1>1, GivenIs DEF CalledFor, Bounded
<1>3. Asks(a, doc.attrs[f][a], f, value[f]) <=>
         (value[f] # Blank => (min # None => value[f].len >= min) /\ (max # None => value[f].len <= max))
  BY <1>1, <1>2 DEF Asks
<1>4. /\ i = 11 => max = None
      /\ i = 12 => min = None \/ max = None
  <2>1. DOMAIN Adapt(f, i) \subseteq Methods
    BY DEF CalledFor, Followed
  <2>2. None \notin Methods
    BY MethodAssumption
  <2>3. i = 11 /\ max # None => None \in DOMAIN Adapt(f, i)
    BY <1>1 DEF MinMaxRule, Setting
  <2>4. i = 12 /\ min # None /\ max # None => None \in DOMAIN Adapt(f, i)
    BY <1>1 DEF MinMaxRule, Setting
  <2> QED
    BY <2>1, <2>2, <2>3, <2>4
<1>5. min # None /\ max # None => <<min, max>> # None
  BY <1>2, NoneAssumption
<1>6. value[f].len \in Nat
  BY ValueIs DEF CalledFor
<1> HIDE DEF min, max
<1>7. /\ min # None /\ max # None => i = 9
      /\ i = 9 \/ i = 11 \/ i = 12
  BY <1>4
<1>8. CASE min # None /\ max # None
  <2>1. Adapt(f, i) = Setting("rangelength", <<min, max>>)
    BY <1>1, <1>7, <1>8 DEF MinMaxRule
  <2>2. Obeyed(s, f, i) <=> Outcome(s, f, "rangelength", <<min, max>>) \in {"pass", "mismatch"}
    BY <1>5, <1>8, <2>1, ObeyedOne
  <2>3. Outcome(s, f, "rangelength", <<min, max>>) = Optional(f, Passed(value[f].len \in min..max))
    <3>1. <<min, max>>[1] = min /\ <<min, max>>[2] = max
      OBVIOUS
    <3> QED
      BY <3>1, OutcomeIs
  <2>4. value[f].len \in min..max <=> value[f].len >= min /\ value[f].len <= max
    BY <1>2, <1>6, <1>8
  <2> QED
    BY <1>3, <1>8, <2>2, <2>3, <2>4 DEF Agrees, Optional, Passed
<1>9. CASE min # None /\ max = None
  <2>1. Adapt(f, i) = Setting("minlength", min)
    BY <1>1, <1>7, <1>9 DEF MinMaxRule
  <2>2. Obeyed(s, f, i) <=> Outcome(s, f, "minlength", min) \in {"pass", "mismatch"}
    BY <1>9, <2>1, ObeyedOne
  <2>3. Outcome(s, f, "minlength", min) = Optional(f, Passed(value[f].len >= min))
    BY OutcomeIs
  <2> QED
    BY <1>3, <1>9, <2>2, <2>3 DEF Agrees, Optional, Passed
<1>10. CASE min = None /\ max # None
  <2>1. Adapt(f, i) = Setting("maxlength", max)
    BY <1>1, <1>4, <1>7, <1>10 DEF MinMaxRule
  <2>2. Obeyed(s, f, i) <=> Outcome(s, f, "maxlength", max) \in {"pass", "mismatch"}
    BY <1>10, <2>1, ObeyedOne
  <2>3. Outcome(s, f, "maxlength", max) = Optional(f, Passed(value[f].len <= max))
    BY OutcomeIs
  <2> QED
    BY <1>3, <1>10, <2>2, <2>3 DEF Agrees, Optional, Passed
<1>11. CASE min = None /\ max = None
  <2>1. Adapt(f, i) = <<>>
    BY <1>1, <1>7, <1>11 DEF MinMaxRule
  <2> QED
    BY <1>3, <1>11, <2>1, ObeyedNone DEF Agrees
<1> QED
  BY <1>8, <1>9, <1>10, <1>11

\* The attribute whose bounds are of the number.
LEMMA BoundsRange ==
    ASSUME NEW f, NEW s, CalledFor(f, 10, "range")
    PROVE  Agrees(s, f, 10, "range")
<1> DEFINE min == Given(f, "range", "min")
           max == Given(f, "range", "max")
<1>1. Adapt(f, 10) = MinMaxRule(<<"min", "max", "range">>, min, max)
  BY AdaptIs
<1>2. /\ "min" \in DOMAIN doc.attrs[f]["range"] <=> min # None
      /\ "max" \in DOMAIN doc.attrs[f]["range"] <=> max # None
      /\ min # None => min = doc.attrs[f]["range"]["min"] /\ min \in Nat
      /\ max # None => max = doc.attrs[f]["range"]["max"] /\ max \in Nat
  BY GivenIs DEF CalledFor, Bounded
<1>3. Asks("range", doc.attrs[f]["range"], f, value[f]) <=>
         (value[f] # Blank =>
             /\ min # None /\ max # None => Conforms("range", <<min, max>>, value[f])
             /\ min # None /\ max = None => Conforms("min", min, value[f])
             /\ min = None /\ max # None => Conforms("max", max, value[f]))
  BY <1>2 DEF Asks
<1>4. min # None /\ max # None => <<min, max>> # None
  BY <1>2, NoneAssumption
<1> HIDE DEF min, max
<1>5. ASSUME NEW m \in {"min", "max", "range"}, NEW p
      PROVE  Outcome(s, f, m, p) \in {"pass", "mismatch"} <=> (value[f] # Blank => Conforms(m, p, value[f]))
  <2>1. Outcome(s, f, m, p) = Optional(f, Passed(Conforms(m, p, value[f])))
    BY TextOutcome
  <2> QED
    BY <2>1 DEF Optional, Passed
<1>6. CASE min # None /\ max # None
  <2>1. Adapt(f, 10) = Setting("range", <<min, max>>)
    BY <1>1, <1>6 DEF MinMaxRule
  <2>2. Obeyed(s, f, 10) <=> Outcome(s, f, "range", <<min, max>>) \in {"pass", "mismatch"}
    BY <1>4, <1>6, <2>1, ObeyedOne
  <2> QED
    BY <1>3, <1>5, <1>6, <2>2 DEF Agrees
<1>7. CASE min # None /\ max = None
  <2>1. Adapt(f, 10) = Setting("min", min)
    BY <1>1, <1>7 DEF MinMaxRule
  <2>2. Obeyed(s, f, 10) <=> Outcome(s, f, "min", min) \in {"pass", "mismatch"}
    BY <1>7, <2>1, ObeyedOne
  <2> QED
    BY <1>3, <1>5, <1>7, <2>2 DEF Agrees
<1>8. CASE min = None /\ max # None
  <2>1. Adapt(f, 10) = Setting("max", max)
    BY <1>1, <1>8 DEF MinMaxRule
  <2>2. Obeyed(s, f, 10) <=> Outcome(s, f, "max", max) \in {"pass", "mismatch"}
    BY <1>8, <2>1, ObeyedOne
  <2> QED
    BY <1>3, <1>5, <1>8, <2>2 DEF Agrees
<1>9. CASE min = None /\ max = None
  <2>1. Adapt(f, 10) = <<>>
    BY <1>1, <1>9 DEF MinMaxRule
  <2> QED
    BY <1>3, <1>9, <2>1, ObeyedNone DEF Agrees
<1> QED
  BY <1>6, <1>7, <1>8, <1>9

\* The other input of an equalto.
LEMMA NamesOne ==
    ASSUME NEW other \in Name, NEW f \in Fields, NEW g \in Fields, Named(g, other, f)
    PROVE  \A h \in Fields : Named(h, other, f) <=> h = AppendModelPrefix(other, GetModelPrefix(f))
<1>1. \A h \in Fields : h \in Seq(STRING) /\ h # <<>>
  BY FormAssumption
<1>2. CASE ~other.starred
  BY <1>2 DEF Named, AppendModelPrefix
<1>3. CASE other.starred
  <2>1. ASSUME NEW h \in Fields
        PROVE  /\ h = Front(h) \o <<Last(h)>>
               /\ Front(h) \in Seq(STRING) /\ Last(h) \in STRING
    <3>1. h \in Seq(STRING) /\ Len(h) \in Nat \ {0}
      BY <1>1, EmptySeq, LenProperties
    <3> QED
      BY <3>1 DEF Front, Last
  <2>2. Front(g) = Front(f) /\ <<Last(g)>> = other.name
    BY <1>3 DEF Named
  <2>3. AppendModelPrefix(other, GetModelPrefix(f)) = g
    BY <1>3, <2>1, <2>2 DEF AppendModelPrefix, GetModelPrefix
  <2>4. ASSUME NEW h \in Fields, Named(h, other, f)
        PROVE  h = g
    <3>1. Front(h) = Front(g) /\ <<Last(h)>> = <<Last(g)>>
      BY <1>3, <2>2, <2>4 DEF Named
    <3> QED
      BY <2>1, <3>1
  <2> QED
    BY <2>3, <2>4
<1> QED
  BY <1>2, <1>3

\* The other input that a followed input names is there from the start, and the only one.
LEMMA FollowedOther ==
    ASSUME NEW f \in Fields, doc \in Pages, doc.early \subseteq present, present \subseteq Fields,
           Followed(f), "equalto" \in DOMAIN doc.attrs[f]
    PROVE  LET other == Given(f, "equalto", "other")
               g == AppendModelPrefix(other, GetModelPrefix(f))
           IN  /\ other = doc.attrs[f]["equalto"].other /\ other \in Name
               /\ g \in present /\ g \in Fields
               /\ \A h \in Fields : Named(h, other, f) <=> h = g
<1> DEFINE other == Given(f, "equalto", "other")
<1>1. /\ "other" \in DOMAIN doc.attrs[f]["equalto"]
      /\ doc.attrs[f]["equalto"]["other"] \in Name
  BY AttributeAssumption
<1>2. other = doc.attrs[f]["equalto"]["other"]
  BY <1>1 DEF Given
<1>3. PICK g \in doc.early : Named(g, other, f)
  BY <1>2 DEF Followed
<1>4. g \in Fields
  OBVIOUS
<1> HIDE DEF other
<1>5. \A h \in Fields : Named(h, other, f) <=> h = AppendModelPrefix(other, GetModelPrefix(f))
  BY <1>1, <1>2, <1>3, <1>4, NamesOne
<1> QED
  BY <1>1, <1>2, <1>3, <1>4, <1>5 DEF other

\* The rule of an equalto is about the input it names.
LEMMA ComparesOther ==
    ASSUME NEW f, NEW s, CalledFor(f, 13, "equalto")
    PROVE  Agrees(s, f, 13, "equalto")
<1> DEFINE other == Given(f, "equalto", "other")
           g == AppendModelPrefix(other, GetModelPrefix(f))
<1>1. /\ other = doc.attrs[f]["equalto"].other
      /\ g \in present /\ g \in Fields
      /\ \A h \in Fields : Named(h, other, f) <=> h = g
  BY FollowedOther DEF CalledFor
<1>2. Adapt(f, 13) = Setting("equalTo", g)
  BY <1>1, AdaptIs DEF EqualTo
<1>3. Asks("equalto", doc.attrs[f]["equalto"], f, value[f]) <=> value[g] = value[f]
  BY <1>1 DEF Asks
<1>4. g # None
  BY <1>1, NoneAssumption
<1> HIDE DEF g
<1>5. Obeyed(s, f, 13) <=> Outcome(s, f, "equalTo", g) \in {"pass", "mismatch"}
  BY <1>2, <1>4, ObeyedOne
<1>6. Outcome(s, f, "equalTo", g) = Passed(value[f] = value[g])
  BY OutcomeIs
<1> QED
  BY <1>3, <1>5, <1>6 DEF Agrees, Passed

\* A checkbox is required without a rule.
LEMMA IsRequired ==
    ASSUME NEW f, NEW s, CalledFor(f, 14, "required")
    PROVE  Agrees(s, f, 14, "required")
<1>1. Asks("required", doc.attrs[f]["required"], f, value[f]) <=> f \in doc.boxes \/ value[f] # Blank
  BY DEF Asks
<1>2. Adapt(f, 14) = Required(f)
  BY AdaptIs
<1>3. CASE f \in doc.boxes
  BY <1>1, <1>2, <1>3, ObeyedNone DEF Agrees, Required
<1>4. CASE f \notin doc.boxes
  <2>1. Adapt(f, 14) = Setting("required", TRUE)
    BY <1>2, <1>4 DEF Required
  <2>2. TRUE # None
    BY NoneAssumption
  <2>3. Obeyed(s, f, 14) <=> Outcome(s, f, "required", TRUE) \in {"pass", "mismatch"}
    BY <2>1, <2>2, ObeyedOne
  <2>4. ASSUME NEW p PROVE Outcome(s, f, "required", p) = Passed(value[f].len > 0)
    BY OutcomeIs
  <2>5. value[f].len > 0 <=> value[f] # Blank
    BY ValueIs DEF CalledFor
  <2> QED
    <3>1. Outcome(s, f, "required", TRUE) = Passed(value[f].len > 0)
      BY <2>4, Zenon
    <3> QED
      BY <1>1, <1>4, <2>3, <2>5, <3>1 DEF Agrees, Passed
<1> QED
  BY <1>3, <1>4

\* A remote asks nothing of the value itself.
LEMMA AsksRemote ==
    ASSUME NEW f, NEW s, CalledFor(f, 15, "remote")
    PROVE  Agrees(s, f, 15, "remote")
BY AdaptIs DEF Agrees, Asks, Obeyed, Remote, Setting

\* A password's three parameters are three rules.
LEMMA AsksPassword ==
    ASSUME NEW f, NEW s, CalledFor(f, 16, "password")
    PROVE  Agrees(s, f, 16, "password")
<1> DEFINE min == Given(f, "password", "min")
           nonalphamin == Given(f, "password", "nonalphamin")
           regex == Given(f, "password", "regex")
           given == [minlength |-> min, nonalphamin |-> nonalphamin, regex |-> regex]
<1>1. Adapt(f, 16) = [m \in {n \in {"minlength", "nonalphamin", "regex"} : given[n] # None} |-> given[m]]
  BY AdaptIs DEF Password
<1>2. given["minlength"] = min /\ given["nonalphamin"] = nonalphamin /\ given["regex"] = regex
  OBVIOUS
<1>3. /\ "min" \in DOMAIN doc.attrs[f]["password"] <=> min # None
      /\ "nonalphamin" \in DOMAIN doc.attrs[f]["password"] <=> nonalphamin # None
      /\ "regex" \in DOMAIN doc.attrs[f]["password"] <=> regex # None
      /\ min # None => min = doc.attrs[f]["password"]["min"]
      /\ nonalphamin # None => nonalphamin = doc.attrs[f]["password"]["nonalphamin"]
      /\ regex # None => regex = doc.attrs[f]["password"]["regex"]
  BY GivenIs DEF CalledFor
<1>4. Asks("password", doc.attrs[f]["password"], f, value[f]) <=>
         /\ nonalphamin # None => NonAlphaMin(value[f], nonalphamin)
         /\ value[f] # Blank /\ min # None => value[f].len >= min
         /\ value[f] # Blank /\ regex # None => Conforms("regex", regex, value[f])
  BY <1>3 DEF Asks, NonAlphaMin
<1> HIDE DEF given, min, nonalphamin, regex
<1>5. Obeyed(s, f, 16) <=>
         \A m \in {"minlength", "nonalphamin", "regex"} : given[m] # None =>
             Outcome(s, f, m, given[m]) \in {"pass", "mismatch"}
  BY <1>1 DEF Obeyed
<1>6. /\ Outcome(s, f, "minlength", min) = Optional(f, Passed(value[f].len >= min))
      /\ Outcome(s, f, "nonalphamin", nonalphamin) = Passed(NonAlphaMin(value[f], nonalphamin))
      /\ Outcome(s, f, "regex", regex) = Passed(Regex(value[f], regex))
  BY OutcomeIs
<1>7. Obeyed(s, f, 16) <=>
         /\ min # None => Outcome(s, f, "minlength", min) \in {"pass", "mismatch"}
         /\ nonalphamin # None => Outcome(s, f, "nonalphamin", nonalphamin) \in {"pass", "mismatch"}
         /\ regex # None => Outcome(s, f, "regex", regex) \in {"pass", "mismatch"}
  BY <1>2, <1>5
<1> QED
  BY <1>4, <1>6, <1>7 DEF Agrees, Optional, Passed, Regex

\* The page, as the lemmas about the rules take it.
Page ==
    /\ doc \in Pages /\ doc.early \subseteq present /\ present \subseteq Fields
    /\ value \in [Fields -> Values]

\* The adapters applied are those of attributes there are.
LEMMA AppliedIs == \A f : \A i \in Applied(f) : i \in 1..17 /\ Adapters[i].name \in DOMAIN doc.attrs[f]
BY AdaptersAre DEF Applied

\* What an attribute asks is what the rules that its adapter sets ask.
LEMMA AdapterAgrees ==
    ASSUME Page, NEW f \in Fields, Followed(f), NEW s, NEW i \in Applied(f)
    PROVE  Agrees(s, f, i, Adapters[i].name)
<1> DEFINE a == Adapters[i].name
<1>1. CalledFor(f, i, a)
  BY AppliedIs DEF Page, CalledFor
<1>2. DOMAIN Adapt(f, i) \subseteq Methods /\ i \in 1..17
  BY AppliedIs DEF Followed
<1>3. /\ Adapters[2].name = "regex" /\ Adapters[10].name = "range" /\ Adapters[13].name = "equalto"
      /\ Adapters[14].name = "required" /\ Adapters[15].name = "remote" /\ Adapters[16].name = "password"
  BY AdaptersAre DEF Add, AddMinMax, AddSingleVal
<1> HIDE DEF a
<1>4. i \notin {1, 3, 17}
  <2>1. /\ i = 1 => "accept" \in DOMAIN Adapt(f, i)
        /\ i = 3 => "creditcard" \in DOMAIN Adapt(f, i)
        /\ i = 17 => "extension" \in DOMAIN Adapt(f, i)
    BY AdaptIs DEF Setting
  <2> QED
    BY <1>2, <2>1 DEF Methods, OptionalMethods
<1>5. CASE i = 2
  BY <1>1, <1>3, <1>5, MatchesPattern DEF a
<1>6. CASE i \in 4..8
  BY <1>1, <1>6, ReadsText DEF a
<1>7. CASE i \in {9, 11, 12}
  BY <1>1, <1>7, BoundsLength DEF a
<1>8. CASE i = 10
  BY <1>1, <1>3, <1>8, BoundsRange DEF a
<1>9. CASE i = 13
  BY <1>1, <1>3, <1>9, ComparesOther DEF a
<1>10. CASE i = 14
  BY <1>1, <1>3, <1>10, IsRequired DEF a
<1>11. CASE i = 15
  BY <1>1, <1>3, <1>11, AsksRemote DEF a
<1>12. CASE i = 16
  BY <1>1, <1>3, <1>12, AsksPassword DEF a
<1>13. i = 2 \/ i \in 4..8 \/ i \in {9, 11, 12} \/ i = 10 \/ i = 13 \/ i = 14 \/ i = 15 \/ i = 16
  BY <1>2, <1>4
<1> QED
  BY <1>5, <1>6, <1>7, <1>8, <1>9, <1>10, <1>11, <1>12, <1>13

\* A value is as asked when every adapter's rules hold.
LEMMA HoldsWhenObeyed ==
    ASSUME Page, NEW f \in Fields, Followed(f), NEW s
    PROVE  Holds(f, value[f]) <=> \A i \in Applied(f) : Obeyed(s, f, i)
<1>1. \A i \in Applied(f) : LET a == Adapters[i].name
                            IN  Asks(a, doc.attrs[f][a], f, value[f]) <=> Obeyed(s, f, i)
  BY AdapterAgrees DEF Agrees
<1>2. \A i \in Applied(f) : Adapters[i].name \in DOMAIN doc.attrs[f]
  BY AppliedIs
<1>3. \A a \in DOMAIN doc.attrs[f] : \E i \in Applied(f) : Adapters[i].name = a
  BY DEF Followed, Applied
<1> QED
  BY <1>1, <1>2, <1>3 DEF Holds

-----------------------------------------------------------------------------
(* What the validator makes of the rules of an input it can follow.        *)

\* There are finitely many methods.
LEMMA MethodsFinite == IsFiniteSet(Methods)
<1> DEFINE q == <<"minlength", "maxlength", "rangelength", "min", "max", "range", "date", "digits", "email",
                  "number", "url", "remote", "required", "equalTo", "regex", "nonalphamin", "__dummy__">>
<1>1. q \in Seq(Methods) /\ Len(q) = 17
  BY DEF Methods, OptionalMethods
<1>2. \A m \in Methods : \E n \in 1..17 : q[n] = m
  <2>1. /\ q[1] = "minlength" /\ q[2] = "maxlength" /\ q[3] = "rangelength" /\ q[4] = "min" /\ q[5] = "max"
        /\ q[6] = "range" /\ q[7] = "date" /\ q[8] = "digits" /\ q[9] = "email" /\ q[10] = "number"
        /\ q[11] = "url" /\ q[12] = "remote" /\ q[13] = "required" /\ q[14] = "equalTo" /\ q[15] = "regex"
        /\ q[16] = "nonalphamin" /\ q[17] = "__dummy__"
    OBVIOUS
  <2> HIDE DEF q
  <2>2. \A n \in {1, 2, 3, 4, 5, 6, 7, 8, 9, 10, 11, 12, 13, 14, 15, 16, 17} : n \in 1..17
    OBVIOUS
  <2> QED
    BY <2>1, <2>2 DEF Methods, OptionalMethods
<1> HIDE DEF q
<1> QED
  BY <1>1, <1>2 DEF IsFiniteSet

\* A set of numbers that is not empty has a least one.
LEMMA LeastOne ==
    ASSUME NEW S \in SUBSET Nat, S # {}
    PROVE  \E x \in S : \A y \in S : x <= y
<1> DEFINE Less == {ss \in Nat \X Nat : ss[1] < ss[2]}
<1>1. OpToRel(<, Nat) = Less
  BY DEF OpToRel
<1>2. IsWellFoundedOn(Less, Nat)
  BY <1>1, NatLessThanWellFounded
<1> HIDE DEF Less
<1>3. PICK x \in S : \A y \in S : <<y, x>> \notin Less
  BY <1>2, WFMin
<1>4. ASSUME NEW y \in S, y < x
      PROVE  <<y, x>> \in Less
  BY <1>4 DEF Less
<1>5. \A y \in S : ~(y < x)
  BY <1>3, <1>4
<1> QED
  BY <1>5

\* A method never throws, and only that of remote takes its time.
LEMMA OutcomeRange ==
    ASSUME NEW s, NEW f, NEW p, NEW m \in Methods
    PROVE  /\ Outcome(s, f, m, p) \in {"pass", "mismatch", "fail", "pending"}
           /\ m # "remote" => Outcome(s, f, m, p) # "pending"
<1> DEFINE o == Outcome(s, f, m, p)
<1>1. CASE m \in {"__dummy__", "required", "equalTo", "regex", "nonalphamin"}
  <2>1. \/ o = "pass" \/ o = Passed(value[f].len > 0) \/ o = Passed(value[f] = value[p])
        \/ o = Passed(Regex(value[f], p)) \/ o = Passed(NonAlphaMin(value[f], p))
    BY <1>1, OutcomeIs
  <2> QED
    BY <2>1 DEF Passed
<1>2. CASE m \in {"minlength", "maxlength", "rangelength"}
  <2>1. \/ o = Optional(f, Passed(value[f].len >= p)) \/ o = Optional(f, Passed(value[f].len <= p))
        \/ o = Optional(f, Passed(value[f].len \in p[1]..p[2]))
    BY <1>2, OutcomeIs
  <2> QED
    BY <2>1 DEF Passed, Optional
<1>3. CASE m \in {"min", "max", "range", "date", "digits", "email", "number", "url"}
  BY <1>3, TextOutcome DEF Passed, Optional
<1>4. CASE m = "remote"
  BY <1>4, OutcomeIs DEF Passed, Optional
<1> QED
  BY <1>1, <1>2, <1>3, <1>4 DEF Methods, OptionalMethods

\* Only the adapter of remote sets the rule of that name.
LEMMA RemoteAlone ==
    ASSUME NEW f, NEW i \in 1..17
    PROVE  "remote" \in DOMAIN Adapt(f, i) <=> i = 15
<1>1. DOMAIN Adapt(f, 1) = {"accept"} /\ DOMAIN Adapt(f, 2) = {"regex"} /\ DOMAIN Adapt(f, 17) = {"extension"}
  BY AdaptIs DEF Setting
<1>2. /\ DOMAIN Adapt(f, 3) = {"creditcard"} /\ DOMAIN Adapt(f, 4) = {"date"} /\ DOMAIN Adapt(f, 5) = {"digits"}
      /\ DOMAIN Adapt(f, 6) = {"email"} /\ DOMAIN Adapt(f, 7) = {"number"} /\ DOMAIN Adapt(f, 8) = {"url"}
  BY AdaptIs DEF Setting
<1>3. /\ DOMAIN Adapt(f, 9) \subseteq {"minlength", "maxlength", "rangelength"}
      /\ DOMAIN Adapt(f, 10) \subseteq {"min", "max", "range"}
  BY AdaptIs DEF MinMaxRule, Setting
<1>4. /\ DOMAIN Adapt(f, 11) \subseteq {"minlength", None}
      /\ DOMAIN Adapt(f, 12) \subseteq {"minlength", "maxlength", None}
  BY AdaptIs DEF MinMaxRule, Setting
<1>5. DOMAIN Adapt(f, 13) = {"equalTo"} /\ DOMAIN Adapt(f, 15) = {"remote"}
  BY AdaptIs DEF EqualTo, Remote, Setting
<1>6. DOMAIN Adapt(f, 14) \subseteq {"required"}
  BY AdaptIs DEF Required, Setting
<1>7. DOMAIN Adapt(f, 16) \subseteq {"minlength", "nonalphamin", "regex"}
  <2> DEFINE given == [minlength |-> Given(f, "password", "min"), nonalphamin |-> Given(f, "password", "nonalphamin"),
                       regex |-> Given(f, "password", "regex")]
  <2>1. Adapt(f, 16) = [m \in {n \in DOMAIN given : given[n] # None} |-> given[m]]
    BY AdaptIs DEF Password
  <2>2. DOMAIN given = {"minlength", "nonalphamin", "regex"}
    OBVIOUS
  <2> HIDE DEF given
  <2> QED
    BY <2>1, <2>2
<1>8. None # "remote"
  BY MethodAssumption DEF Methods, OptionalMethods
<1> QED
  BY <1>1, <1>2, <1>3, <1>4, <1>5, <1>6, <1>7, <1>8

\* A rule of a followed input has one setter, its place and its parameter.
LEMMA RuleOfSetter ==
    ASSUME NEW f, Followed(f), NEW i \in Applied(f), NEW m \in DOMAIN Adapt(f, i)
    PROVE  m \in DOMAIN Adapted(f) /\ Adapted(f)[m] = [place |-> i, param |-> Adapt(f, i)[m]]
<1> DEFINE setters == {j \in Applied(f) : m \in DOMAIN Adapt(f, j)}
<1>1. \A j \in setters : j = i
  BY DEF Followed
<1>2. setters = {i} /\ i \in Nat
  BY <1>1, AppliedIs
<1> HIDE DEF setters
<1>3. Min(setters) = i /\ Max(setters) = i
  BY <1>2 DEF Min, Max
<1>4. SetValidationValues(f, m) = [place |-> i, param |-> Adapt(f, i)[m]]
  BY <1>3 DEF SetValidationValues, setters
<1>5. m \in UNION {DOMAIN Adapt(f, j) : j \in Applied(f)}
  OBVIOUS
<1> QED
  BY <1>4, <1>5 DEF Adapted

\* Every rule has a setter.
LEMMA SetterOfRule ==
    ASSUME NEW f, NEW m \in DOMAIN Adapted(f)
    PROVE  \E i \in Applied(f) : m \in DOMAIN Adapt(f, i)
BY DEF Adapted

\* The rules of f with which its validator starts.
Rules(f) == Defined(RulesOf(f))

\* The rules of a followed input: those its adapters set, and the dummy.
LEMMA RulesAre ==
    ASSUME Page, NEW f \in Fields, Followed(f)
    PROVE  /\ "__dummy__" \in DOMAIN Rules(f) /\ DOMAIN Rules(f) \subseteq Methods
           /\ \A m \in DOMAIN Rules(f) : Rules(f)[m].place \in 1..18
           /\ \A m \in DOMAIN Rules(f) \ {"__dummy__"} :
                 \E i \in Applied(f) : m \in DOMAIN Adapt(f, i) /\ Rules(f)[m].param = Adapt(f, i)[m]
           /\ \A i \in Applied(f) : \A m \in DOMAIN Adapt(f, i) : Adapt(f, i)[m] # None /\ m # "__dummy__" =>
                 m \in DOMAIN Rules(f) /\ Rules(f)[m].param = Adapt(f, i)[m]
<1> DEFINE R == RulesOf(f)
           A == Adapted(f)
           last == [place |-> 18, param |-> TRUE]
<1>1. R = [m \in DOMAIN A \cup {"__dummy__"} |-> IF m = "__dummy__" THEN last ELSE A[m]]
  BY AdaptersAre DEF RulesOf
<1>2. last.place = 18 /\ last.param # None
  BY NoneAssumption
<1>3. Rules(f) = [m \in {n \in DOMAIN R : R[n].param # None} |-> R[m]]
  BY DEF Rules, Defined
<1>4. \A m \in DOMAIN A : \E i \in Applied(f) : m \in DOMAIN Adapt(f, i)
  BY SetterOfRule
<1>5. \A i \in Applied(f) : \A m \in DOMAIN Adapt(f, i) :
         m \in DOMAIN A /\ A[m].place = i /\ A[m].param = Adapt(f, i)[m]
  <2>1. ASSUME NEW i \in Applied(f), NEW m \in DOMAIN Adapt(f, i)
        PROVE  m \in DOMAIN A /\ A[m].place = i /\ A[m].param = Adapt(f, i)[m]
    <3> DEFINE p == Adapt(f, i)[m]
    <3>1. m \in DOMAIN A /\ A[m] = [place |-> i, param |-> p]
      BY RuleOfSetter
    <3> HIDE DEF p, A
    <3>2. A[m].place = i /\ A[m].param = p
      BY <3>1
    <3> QED
      BY <3>1, <3>2 DEF p
  <2> QED
    BY <2>1
<1>6. \A i \in Applied(f) : i \in 1..17 /\ DOMAIN Adapt(f, i) \subseteq Methods
  BY AppliedIs DEF Followed
<1> HIDE DEF R, A, last
<1>7. "__dummy__" \in Methods
  BY DEF Methods
<1>8. "__dummy__" \in DOMAIN R /\ R["__dummy__"] = last /\ DOMAIN R \subseteq Methods
  BY <1>1, <1>4, <1>6, <1>7
<1>9. \A m \in DOMAIN R \ {"__dummy__"} : m \in DOMAIN A /\ R[m] = A[m]
  BY <1>1
<1>10. \A m \in DOMAIN Rules(f) : m \in DOMAIN R /\ Rules(f)[m] = R[m]
  BY <1>3
<1>11. \A m \in DOMAIN R : R[m].param # None => m \in DOMAIN Rules(f)
  BY <1>3
<1>12. \A m \in DOMAIN Rules(f) : Rules(f)[m].place \in 1..18
  <2>1. TAKE m \in DOMAIN Rules(f)
  <2>2. CASE m = "__dummy__"
    BY <1>2, <1>8, <1>10, <2>2
  <2>3. CASE m # "__dummy__"
    BY <1>4, <1>5, <1>6, <1>9, <1>10, <2>3
  <2> QED
    BY <2>2, <2>3
<1>13. \A m \in DOMAIN Rules(f) \ {"__dummy__"} :
          \E i \in Applied(f) : m \in DOMAIN Adapt(f, i) /\ Rules(f)[m].param = Adapt(f, i)[m]
  BY <1>4, <1>5, <1>9, <1>10
<1>14. \A i \in Applied(f) : \A m \in DOMAIN Adapt(f, i) : Adapt(f, i)[m] # None /\ m # "__dummy__" =>
          m \in DOMAIN Rules(f) /\ Rules(f)[m].param = Adapt(f, i)[m]
  <2>1. TAKE i \in Applied(f)
  <2> TAKE m \in DOMAIN Adapt(f, i)
  <2>2. HAVE Adapt(f, i)[m] # None /\ m # "__dummy__"
  <2>3. m \in DOMAIN A /\ A[m].param = Adapt(f, i)[m]
    BY <1>5
  <2>4. m \in DOMAIN R /\ R[m] = A[m]
    BY <1>1, <2>2, <2>3
  <2> QED
    BY <1>10, <1>11, <2>2, <2>3, <2>4
<1> QED
  BY <1>2, <1>8, <1>10, <1>11, <1>12, <1>13, <1>14

\* The rule of remote, with what it sends.
LEMMA RemoteRule ==
    ASSUME Page, NEW f \in Fields, Followed(f)
    PROVE  "remote" \in DOMAIN Rules(f) <=> "remote" \in DOMAIN doc.attrs[f]
<1>1. "remote" \in DOMAIN doc.attrs[f] <=> 15 \in Applied(f)
  BY AdaptersAre DEF Applied, Add, AddMinMax, AddBool, AddSingleVal
<1>2. "remote" \in DOMAIN Adapt(f, 15)
  BY RemoteAlone
<1>3. Adapt(f, 15)["remote"] # None
  <2>1. Adapt(f, 15)["remote"] \in SUBSET Fields
    BY AdaptIs DEF Remote, Setting
  <2> QED
    BY <2>1, NoneAssumption
<1>4. 15 \in Applied(f) => "remote" \in DOMAIN Rules(f)
  BY <1>2, <1>3, RulesAre
<1>5. "remote" \in DOMAIN Rules(f) => 15 \in Applied(f)
  BY RulesAre, RemoteAlone, AppliedIs
<1> QED
  BY <1>1, <1>4, <1>5

\* Some rule other than that of remote does not hold exactly when the attributes
\* ask for something else.
LEMMA BadRule ==
    ASSUME Page, NEW f \in Fields, Followed(f), NEW s
    PROVE  Holds(f, value[f]) <=>
               \A m \in DOMAIN Rules(f) \ {"remote"} : Outcome(s, f, m, Rules(f)[m].param) \in {"pass", "mismatch"}
<1>1. Holds(f, value[f]) <=> \A i \in Applied(f) : Obeyed(s, f, i)
  BY HoldsWhenObeyed
<1>2. \A p : Outcome(s, f, "__dummy__", p) = "pass"
  BY OutcomeIs
<1>3. ASSUME \A i \in Applied(f) : Obeyed(s, f, i), NEW m \in DOMAIN Rules(f) \ {"remote"}
      PROVE  Outcome(s, f, m, Rules(f)[m].param) \in {"pass", "mismatch"}
  <2>1. CASE m = "__dummy__"
    BY <1>2, <2>1
  <2>2. CASE m # "__dummy__"
    <3>1. PICK i \in Applied(f) : m \in DOMAIN Adapt(f, i) /\ Rules(f)[m].param = Adapt(f, i)[m]
      BY <2>2, RulesAre
    <3>2. Rules(f)[m].param # None
      BY DEF Rules, Defined
    <3> QED
      BY <1>3, <3>1, <3>2 DEF Obeyed
  <2> QED
    BY <2>1, <2>2
<1>4. ASSUME \A m \in DOMAIN Rules(f) \ {"remote"} : Outcome(s, f, m, Rules(f)[m].param) \in {"pass", "mismatch"},
             NEW i \in Applied(f), NEW m \in DOMAIN Adapt(f, i), Adapt(f, i)[m] # None, m # "remote"
      PROVE  Outcome(s, f, m, Adapt(f, i)[m]) \in {"pass", "mismatch"}
  <2>1. CASE m = "__dummy__"
    BY <1>2, <2>1
  <2>2. CASE m # "__dummy__"
    BY <1>4, <2>2, RulesAre
  <2> QED
    BY <2>1, <2>2
<1>5. (\A m \in DOMAIN Rules(f) \ {"remote"} : Outcome(s, f, m, Rules(f)[m].param) \in {"pass", "mismatch"})
         => \A i \in Applied(f) : Obeyed(s, f, i)
  BY <1>4 DEF Obeyed
<1> QED
  BY <1>1, <1>3, <1>5

\* What the answer that is kept says, once the other rules hold.
RemoteOutcome(s, f) ==
    IF "remote" \in DOMAIN doc.attrs[f] /\ value[f] # Blank
    THEN IF s.old[f] = RemoteKey(f, Rules(f)["remote"].param) THEN Passed(s.answer[f]) ELSE "pending"
    ELSE "pass"

\* The check of an input that the script can follow: the rules whose methods
\* answer at once first, and what remote says when they hold.
LEMMA CheckIs ==
    ASSUME Page, NEW f \in Fields, Followed(f), NEW s, settings[f] = Rules(f)
    PROVE  Check(s, f) = IF Holds(f, value[f]) THEN RemoteOutcome(s, f) ELSE "fail"
<1> DEFINE R == Rules(f)
           outcome(m) == Outcome(s, f, m, R[m].param)
           decisive == {m \in DOMAIN R : outcome(m) \notin {"pass", "mismatch"}}
<1>1. /\ "__dummy__" \in DOMAIN R /\ DOMAIN R \subseteq Methods
      /\ \A m \in DOMAIN R : R[m].place \in 1..18
  BY RulesAre
<1>2. outcome("__dummy__") = "pass"
  BY OutcomeIs
<1>3. /\ \A m \in DOMAIN R : outcome(m) \in {"pass", "mismatch", "fail", "pending"}
      /\ \A m \in DOMAIN R \ {"remote"} : outcome(m) # "pending"
  BY <1>1, OutcomeRange
<1>4. Holds(f, value[f]) <=> decisive \subseteq {"remote"}
  BY BadRule
<1>5. "remote" \in DOMAIN R => outcome("remote") =
         Optional(f, IF s.old[f] = RemoteKey(f, R["remote"].param) THEN Passed(s.answer[f]) ELSE "pending")
  BY OutcomeIs
<1>6. "remote" \in DOMAIN R <=> "remote" \in DOMAIN doc.attrs[f]
  BY RemoteRule
<1>7. Check(s, f) = IF decisive # {} THEN outcome(First(R, decisive))
                    ELSE IF Cardinality(DOMAIN R) = 1 /\ \E m \in DOMAIN R : outcome(m) = "mismatch"
                    THEN "mismatch" ELSE "pass"
  BY DEF Check
<1>8. ~(Cardinality(DOMAIN R) = 1 /\ \E m \in DOMAIN R : outcome(m) = "mismatch")
  <2>1. IsFiniteSet(DOMAIN R)
    BY <1>1, MethodsFinite, FS_Subset
  <2>2. ASSUME Cardinality(DOMAIN R) = 1
        PROVE  DOMAIN R = {"__dummy__"}
    BY <1>1, <2>1, <2>2, FS_Singleton
  <2> QED
    BY <1>2, <2>2
<1>9. /\ \A m \in DOMAIN R \ {"remote"} : Turn(R, m) \in 0..18
      /\ Turn(R, "remote") = 19
  BY <1>1, AdaptersAre DEF Turn
<1> HIDE DEF R, outcome, decisive
<1>10. \A m \in decisive : m \in DOMAIN R /\ outcome(m) \notin {"pass", "mismatch"}
  BY DEF decisive
<1>11. CASE ~Holds(f, value[f])
  <2>1. PICK n \in decisive : n # "remote"
    BY <1>4, <1>11
  <2> DEFINE turns == {Turn(R, m) : m \in decisive}
  <2>2. \A m \in decisive : Turn(R, m) \in Nat
    BY <1>9, <1>10
  <2>3. turns \in SUBSET Nat /\ turns # {}
    BY <2>1, <2>2
  <2>4. \E x \in turns : \A y \in turns : x <= y
    BY <2>3, LeastOne
  <2>5. \E m \in decisive : \A k \in decisive : Turn(R, m) <= Turn(R, k)
    BY <2>4
  <2>6. First(R, decisive) \in decisive /\ Turn(R, First(R, decisive)) <= Turn(R, n)
    BY <2>1, <2>5 DEF First
  <2>7. Turn(R, n) \in 0..18
    BY <1>9, <1>10, <2>1
  <2>8. First(R, decisive) # "remote"
    BY <1>9, <2>6, <2>7
  <2> HIDE DEF turns
  <2>9. outcome(First(R, decisive)) = "fail"
    BY <1>3, <1>10, <2>6, <2>8
  <2> QED
    BY <1>7, <1>11, <2>1, <2>9
<1>12. CASE Holds(f, value[f]) /\ decisive # {}
  <2>1. decisive = {"remote"}
    BY <1>4, <1>12
  <2>2. First(R, decisive) = "remote"
    <3>1. 19 <= 19
      OBVIOUS
    <3> QED
      BY <1>9, <2>1, <3>1 DEF First
  <2>3. outcome("remote") \notin {"pass", "mismatch"} /\ "remote" \in DOMAIN R
    BY <1>10, <2>1
  <2> QED
    BY <1>5, <1>6, <1>7, <1>12, <2>2, <2>3 DEF RemoteOutcome, Optional, R
<1>13. CASE Holds(f, value[f]) /\ decisive = {}
  <2>1. Check(s, f) = "pass"
    BY <1>7, <1>8, <1>13
  <2>2. "remote" \in DOMAIN R => outcome("remote") \in {"pass", "mismatch"}
    BY <1>13 DEF decisive
  <2>3. RemoteOutcome(s, f) = "pass"
    BY <1>5, <1>6, <2>2 DEF RemoteOutcome, Optional, Passed, R
  <2> QED
    BY <1>13, <2>1, <2>3
<1> QED
  BY <1>11, <1>12, <1>13

-----------------------------------------------------------------------------
(* What an input is asked for stays as long as the document does.          *)

\* No adapter but that of equalto reads which inputs are in the document.
LEMMA AdaptStays ==
    ASSUME doc' = doc, NEW CONSTANT f, NEW CONSTANT i
    PROVE  /\ i # 13 /\ i \in 1..17 => Adapt(f, i)' = Adapt(f, i)
           /\ Adapt(f, 13)' = EqualTo(f, Given(f, "equalto", "other"))'
           /\ i \in 1..17 => (DOMAIN Adapt(f, i))' = DOMAIN Adapt(f, i)
           /\ Applied(f)' = Applied(f)
<1>1. Applied(f)' = Applied(f)
  BY DEF Applied
<1>2. ASSUME i # 13, i \in 1..17
      PROVE  Adapt(f, i)' = Adapt(f, i)
  <2>1. Adapters[i].kind # "equalto"
    <3>1. /\ Adapters[1].kind = "single" /\ Adapters[2].kind = "single" /\ Adapters[17].kind = "single"
          /\ \A k \in 3..8 : Adapters[k].kind = "bool"
      BY AdaptersAre DEF AddSingleVal, AddBool, Add
    <3>2. /\ \A k \in 9..12 : Adapters[k].kind = "minmax"
          /\ Adapters[14].kind = "required" /\ Adapters[15].kind = "remote" /\ Adapters[16].kind = "password"
      BY AdaptersAre DEF AddMinMax, Add
    <3> QED
      BY <1>2, <3>1, <3>2
  <2> QED
    BY <2>1 DEF Adapt, Required, Remote
<1>3. Adapt(f, 13)' = EqualTo(f, Given(f, "equalto", "other"))'
  BY AdaptersAre DEF Adapt, Add, Given
<1>4. (DOMAIN Adapt(f, 13))' = {"equalTo"} /\ DOMAIN Adapt(f, 13) = {"equalTo"}
  BY <1>3, AdaptIs DEF EqualTo, Setting
<1> QED
  BY <1>1, <1>2, <1>3, <1>4

\* Whether the script can follow an input does not depend on what is loaded.
LEMMA FollowedStays ==
    ASSUME doc' = doc, NEW CONSTANT f
    PROVE  Followed(f)' <=> Followed(f)
<1>1. Applied(f)' = Applied(f) /\ \A i \in Applied(f) : i \in 1..17
  BY AdaptStays, AppliedIs
<1>2. ASSUME NEW CONSTANT i \in 1..17
      PROVE  (DOMAIN Adapt(f, i))' = DOMAIN Adapt(f, i)
  BY AdaptStays
<1> QED
  BY <1>1, <1>2 DEF Followed

\* Nor do the rules of an input that it can follow, once the first inputs are there.
LEMMA RulesStay ==
    ASSUME Page, doc' = doc, present \subseteq present', NEW CONSTANT f \in Fields, Followed(f)
    PROVE  RulesOf(f)' = RulesOf(f) /\ Rules(f)' = Rules(f)
<1>1. Applied(f)' = Applied(f) /\ \A i \in Applied(f) : i \in 1..17
  BY AdaptStays, AppliedIs
<1>2. ASSUME NEW CONSTANT i \in Applied(f)
      PROVE  Adapt(f, i)' = Adapt(f, i)
  <2>1. CASE i = 13
    <3> DEFINE other == Given(f, "equalto", "other")
               g == AppendModelPrefix(other, GetModelPrefix(f))
    <3>1. "equalto" \in DOMAIN doc.attrs[f]
      BY <2>1, AdaptersAre, AppliedIs DEF Add
    <3>2. g \in present
      BY <3>1, FollowedOther DEF Page
    <3>3. EqualTo(f, other) = Setting("equalTo", g)
      BY <3>2 DEF EqualTo
    <3>4. EqualTo(f, other)' = Setting("equalTo", g)
      BY <3>2 DEF EqualTo, Given
    <3> QED
      BY <2>1, <3>3, <3>4, AdaptIs, AdaptStays
  <2>2. CASE i # 13
    BY <1>1, <2>2, AdaptStays
  <2> QED
    BY <2>1, <2>2
<1>3. ASSUME NEW CONSTANT m
      PROVE  {i \in Applied(f) : m \in DOMAIN Adapt(f, i)}' = {i \in Applied(f) : m \in DOMAIN Adapt(f, i)}
  BY <1>1, <1>2
<1>4. ASSUME NEW CONSTANT m \in DOMAIN Adapted(f)
      PROVE  SetValidationValues(f, m)' = SetValidationValues(f, m)
  <2> DEFINE setters == {i \in Applied(f) : m \in DOMAIN Adapt(f, i)}
  <2>1. PICK i \in Applied(f) : m \in DOMAIN Adapt(f, i)
    BY SetterOfRule
  <2>2. setters = {i} /\ i \in Nat
    BY <1>1, <2>1 DEF Followed
  <2>3. setters' = {i}
    BY <1>3, <2>2
  <2>4. Max({i}) = i
    BY <2>2 DEF Max
  <2>5. Adapt(f, Max(setters)) = Adapt(f, i) /\ Adapt(f, Max(setters))' = Adapt(f, i)
    BY <1>2, <2>2, <2>3, <2>4
  <2> QED
    BY <2>2, <2>3, <2>5 DEF SetValidationValues
<1>5. UNION {DOMAIN Adapt(f, i) : i \in Applied(f)}' = UNION {DOMAIN Adapt(f, i) : i \in Applied(f)}
  BY <1>1, <1>2
<1>6. Adapted(f)' = Adapted(f)
  BY <1>4, <1>5 DEF Adapted
<1>7. RulesOf(f)' = RulesOf(f)
  BY <1>6 DEF RulesOf
<1> QED
  BY <1>7 DEF Rules, Defined

-----------------------------------------------------------------------------
(* What the parts of a check leave of the validator's state.               *)

\* The state's fields.
LEMMA StateIs ==
    ASSUME NEW s \in FormState
    PROVE  /\ s = [shown |-> s.shown, summary |-> s.summary, old |-> s.old, answer |-> s.answer,
                   request |-> s.request, pending |-> s.pending, waits |-> s.waits]
           /\ s.shown \in [Fields -> Container] /\ s.summary \in {"valid", "errors"}
           /\ s.old \in [Fields -> Key \cup {None}] /\ s.answer \in [Fields -> BOOLEAN]
           /\ s.request \in [Fields -> Request \cup {None}] /\ s.pending \in SUBSET Fields
           /\ s.waits \in BOOLEAN
BY DEF FormState

\* A state from its fields.
LEMMA StateOf ==
    ASSUME NEW shown \in [Fields -> Container], NEW summary \in {"valid", "errors"},
           NEW old \in [Fields -> Key \cup {None}], NEW answer \in [Fields -> BOOLEAN],
           NEW request \in [Fields -> Request \cup {None}], NEW pending \in SUBSET Fields, NEW waits \in BOOLEAN
    PROVE  [shown |-> shown, summary |-> summary, old |-> old, answer |-> answer,
            request |-> request, pending |-> pending, waits |-> waits] \in FormState
BY DEF FormState

\* What is kept of a request is what was entered.
LEMMA KeyIs ==
    ASSUME Page, NEW f \in Fields, NEW names
    PROVE  /\ RemoteKey(f, names) \in Key /\ RemoteKey(f, names) # None
           /\ RemoteKey(f, names).own = value[f]
<1> DEFINE more == {<<g, value[g]>> : g \in names \cap present}
<1>1. more \in SUBSET (Fields \X Values) /\ value[f] \in Values
  BY DEF Page
<1>2. RemoteKey(f, names) = [own |-> value[f], more |-> more]
  BY DEF RemoteKey
<1> HIDE DEF more
<1>3. RemoteKey(f, names) \in Key /\ RemoteKey(f, names).own = value[f]
  BY <1>1, <1>2 DEF Key
<1> QED
  BY <1>3, NoneAssumption DEF Key

\* Requests: the values sent, the inputs pending.
LEMMA AskIs ==
    ASSUME Page, NEW s \in FormState, NEW asking \in SUBSET Fields
    PROVE  LET a == Ask(s, asking)
           IN  /\ a \in FormState
               /\ a.shown = s.shown /\ a.answer = s.answer /\ a.waits = s.waits
               /\ a.pending = s.pending \cup asking
               /\ \A f \in Fields : a.old[f] = IF f \in asking THEN RemoteKey(f, settings[f]["remote"].param)
                                                                ELSE s.old[f]
               /\ \A f \in Fields : a.request[f] = IF f \in asking THEN [own |-> value[f], bound |-> TRUE]
                                                                   ELSE s.request[f]
<1> DEFINE old == [f \in Fields |-> IF f \in asking THEN RemoteKey(f, settings[f]["remote"].param) ELSE s.old[f]]
           request == [f \in Fields |-> IF f \in asking THEN [own |-> value[f], bound |-> TRUE] ELSE s.request[f]]
           a == Ask(s, asking)
<1>1. a = [s EXCEPT !.old = old, !.request = request, !.pending = s.pending \cup asking]
  BY Zenon DEF Ask
<1>2. old \in [Fields -> Key \cup {None}]
  BY KeyIs, StateIs
<1>3. request \in [Fields -> Request \cup {None}]
  BY StateIs DEF Request, Page
<1> HIDE DEF old, request, a
<1>4. a = [shown |-> s.shown, summary |-> s.summary, old |-> old, answer |-> s.answer,
           request |-> request, pending |-> s.pending \cup asking, waits |-> s.waits]
  <2> DEFINE pending == s.pending \cup asking
  <2> HIDE DEF pending
  <2>1. a = [s EXCEPT !.old = old, !.request = request, !.pending = pending]
    BY <1>1 DEF pending
  <2>2. s = [shown |-> s.shown, summary |-> s.summary, old |-> s.old, answer |-> s.answer,
             request |-> s.request, pending |-> s.pending, waits |-> s.waits]
    BY StateIs
  <2>3. a = [shown |-> s.shown, summary |-> s.summary, old |-> old, answer |-> s.answer,
             request |-> request, pending |-> pending, waits |-> s.waits]
    BY <2>1, <2>2
  <2> QED
    BY <2>3 DEF pending
<1>5. s.pending \cup asking \in SUBSET Fields
  BY StateIs
<1>6. a \in FormState
  BY <1>2, <1>3, <1>4, <1>5, StateIs, StateOf
<1> QED
  BY <1>4, <1>6 DEF old, request, a

\* Showing a result changes the containers.
LEMMA ShowIs ==
    ASSUME NEW s \in FormState, NEW result
    PROVE  LET a == Show(s, result)
           IN  /\ a \in FormState
               /\ a.answer = s.answer /\ a.waits = s.waits /\ a.pending = s.pending
               /\ a.old = s.old /\ a.request = s.request
               /\ \A f \in Fields : a.shown[f] = IF f \in Having(result, "fail") THEN OnError(f, s.shown[f])
                                                 ELSE IF f \in Having(result, "pass") THEN OnSuccess(f, s.shown[f])
                                                 ELSE s.shown[f]
<1> DEFINE shown == [f \in Fields |-> IF f \in Having(result, "fail") THEN OnError(f, s.shown[f])
                                      ELSE IF f \in Having(result, "pass") THEN OnSuccess(f, s.shown[f])
                                      ELSE s.shown[f]]
           a == Show(s, result)
<1>1. a = [s EXCEPT !.shown = shown]
  BY StateIs DEF Show
<1>2. shown \in [Fields -> Container]
  <2>1. ASSUME NEW f \in Fields, NEW c \in Container
        PROVE  OnError(f, c) \in Container /\ OnSuccess(f, c) \in Container
    BY DEF OnError, OnSuccess, Container
  <2> QED
    BY <2>1, StateIs
<1> HIDE DEF shown, a
<1>3. a = [shown |-> shown, summary |-> s.summary, old |-> s.old, answer |-> s.answer,
           request |-> s.request, pending |-> s.pending, waits |-> s.waits]
  BY <1>1, StateIs
<1>4. a \in FormState
  BY <1>2, <1>3, StateIs, StateOf
<1> QED
  BY <1>3, <1>4 DEF shown, a

\* Filling the summary changes no more than that.
LEMMA OnErrorsIs ==
    ASSUME NEW s \in FormState
    PROVE  LET a == OnErrors(s)
           IN  /\ a \in FormState
               /\ a.answer = s.answer /\ a.waits = s.waits /\ a.pending = s.pending
               /\ a.old = s.old /\ a.request = s.request /\ a.shown = s.shown
BY StateIs DEF OnErrors, FormState

\* So does a submission that waits.
LEMMA WaitsIs ==
    ASSUME NEW s \in FormState, NEW w \in BOOLEAN
    PROVE  LET a == [s EXCEPT !.waits = w]
           IN  /\ a \in FormState
               /\ a.answer = s.answer /\ a.pending = s.pending
               /\ a.old = s.old /\ a.request = s.request /\ a.shown = s.shown
BY StateIs DEF FormState

-----------------------------------------------------------------------------
(* Answers, and what is shown of an input that the script can follow.      *)

\* A request is of an input that is pending: its answer is kept with what it was
\* asked for, or not at all.  What is kept and not pending is what the address says.
AnsweredOf(s, f) ==
    /\ s.request[f] # None =>
           /\ f \in s.pending
           /\ s.request[f].bound => s.old[f] # None /\ s.old[f].own = s.request[f].own
           /\ ~s.request[f].bound => s.old[f] = None
    /\ s.old[f] # None /\ f \notin s.pending => (s.answer[f] <=> s.old[f].own \notin Taken)
Answered(s) == \A f \in Fields : AnsweredOf(s, f)

\* The value of f is not what its attributes ask, and its container tells.
Wrong(f) == ~Holds(f, value[f]) \/ Refused(f)
Right(s, f) ==
    /\ s.shown[f].class = "error" <=> Wrong(f)
    /\ f \in Replace => (s.shown[f].filled <=> Wrong(f))

AllRight == \A f \in fresh : Followed(f) => Right(form, f)

\* The property, input by input.
LEMMA ShownAgreesIs == ShownAgrees <=> AllRight
BY DEF ShownAgrees, AllRight, Right, Wrong

\* The rules of the inputs that the validator checks.
Ruled == DOMAIN settings \subseteq Fields /\ \A f \in DOMAIN settings : Followed(f) => settings[f] = Rules(f)

\* The check of an input that is not pending tells whether its value is wrong.
LEMMA CheckFollowed ==
    ASSUME Page, Ruled, NEW s, Answered(s), NEW f \in DOMAIN settings, Followed(f)
    PROVE  /\ Check(s, f) \in {"pass", "fail", "pending"}
           /\ Check(s, f) # "fail" => Holds(f, value[f])
           /\ f \notin s.pending /\ Check(s, f) # "pending" => (Check(s, f) = "fail" <=> Wrong(f))
<1>1. f \in Fields /\ settings[f] = Rules(f)
  BY DEF Ruled
<1>2. Check(s, f) = IF Holds(f, value[f]) THEN RemoteOutcome(s, f) ELSE "fail"
  BY <1>1, CheckIs
<1>3. RemoteOutcome(s, f) \in {"pass", "fail", "pending"}
  BY DEF RemoteOutcome, Passed
<1>4. ASSUME f \notin s.pending, RemoteOutcome(s, f) # "pending"
      PROVE  RemoteOutcome(s, f) = "fail" <=> Refused(f)
  <2>1. CASE "remote" \in DOMAIN doc.attrs[f] /\ value[f] # Blank
    <3> DEFINE key == RemoteKey(f, Rules(f)["remote"].param)
    <3>1. key # None /\ key.own = value[f]
      BY <1>1, KeyIs
    <3>2. RemoteOutcome(s, f) = IF s.old[f] = key THEN Passed(s.answer[f]) ELSE "pending"
      BY <2>1 DEF RemoteOutcome
    <3> HIDE DEF key
    <3>3. s.old[f] = key /\ RemoteOutcome(s, f) = Passed(s.answer[f])
      BY <1>4, <3>2
    <3>4. s.answer[f] <=> value[f] \notin Taken
      BY <1>1, <1>4, <3>1, <3>3 DEF Answered, AnsweredOf
    <3> QED
      BY <2>1, <3>3, <3>4 DEF Passed, Refused
  <2>2. CASE "remote" \notin DOMAIN doc.attrs[f]
    BY <2>2 DEF RemoteOutcome, Refused
  <2>3. CASE value[f] = Blank
    BY <2>3, FormAssumption DEF RemoteOutcome, Refused
  <2> QED
    BY <2>1, <2>2, <2>3
<1> QED
  BY <1>2, <1>3, <1>4 DEF Wrong

\* What checks leave: of form() and of element().
ChecksLeave(s, result, c) ==
    /\ c \in FormState /\ Answered(c) /\ c.waits = s.waits
    /\ c.pending = s.pending \cup Having(result, "pending")
    /\ \A f \in DOMAIN result \ c.pending : Followed(f) => Right(c, f)
    /\ \A f \in Fields \ DOMAIN result : c.shown[f] = s.shown[f]

\* What is kept of the answers stays right when inputs are asked for.
LEMMA AskedRight ==
    ASSUME Page, NEW s \in FormState, Answered(s), NEW P \in SUBSET Fields
    PROVE  LET asked == Ask(s, P)
           IN  /\ asked \in FormState /\ Answered(asked)
               /\ asked.shown = s.shown /\ asked.waits = s.waits
               /\ asked.pending = s.pending \cup P
<1> DEFINE asked == Ask(s, P)
<1>1. /\ asked \in FormState
      /\ asked.shown = s.shown /\ asked.answer = s.answer /\ asked.waits = s.waits
      /\ asked.pending = s.pending \cup P
      /\ \A f \in Fields : asked.old[f] = IF f \in P THEN RemoteKey(f, settings[f]["remote"].param) ELSE s.old[f]
      /\ \A f \in Fields : asked.request[f] = IF f \in P THEN [own |-> value[f], bound |-> TRUE] ELSE s.request[f]
  BY AskIs
<1> HIDE DEF asked
<1>2. ASSUME NEW f \in Fields
      PROVE  AnsweredOf(asked, f)
  <2>1. CASE f \in P
    <3> DEFINE key == RemoteKey(f, settings[f]["remote"].param)
    <3>1. key # None /\ key.own = value[f]
      BY KeyIs
    <3>2. asked.old[f] = key /\ f \in asked.pending
      BY <1>1, <2>1
    <3>3. asked.request[f] = [own |-> value[f], bound |-> TRUE]
      BY <1>1, <2>1
    <3> HIDE DEF key
    <3>4. asked.request[f].bound = TRUE /\ asked.request[f].own = value[f]
      BY <3>3
    <3> QED
      BY <3>1, <3>2, <3>4 DEF AnsweredOf
  <2>2. CASE f \notin P
    <3>1. asked.old[f] = s.old[f] /\ asked.request[f] = s.request[f] /\ asked.answer[f] = s.answer[f]
      BY <1>1, <2>2
    <3>2. f \in asked.pending <=> f \in s.pending
      BY <1>1, <2>2
    <3>3. AnsweredOf(s, f)
      BY DEF Answered
    <3> QED
      BY <3>1, <3>2, <3>3 DEF AnsweredOf
  <2> QED
    BY <2>1, <2>2
<1> QED
  BY <1>1, <1>2 DEF Answered, asked

\* Checks tell the truth of what they check and keep the answers right.
LEMMA ChecksAre ==
    ASSUME Page, Ruled, NEW s \in FormState, Answered(s), NEW D \in SUBSET DOMAIN settings
    PROVE  LET result == [f \in D |-> Check(s, f)]
               asked == Ask(s, Having(result, "pending"))
           IN  ChecksLeave(s, result, Show(asked, result)) /\ ChecksLeave(s, result, Show(OnErrors(asked), result))
<1> DEFINE result == [f \in D |-> Check(s, f)]
           P == Having(result, "pending")
           asked == Ask(s, P)
<1>1. DOMAIN result = D /\ D \subseteq Fields /\ P \in SUBSET Fields /\ P \subseteq D
  BY DEF Having, Ruled
<1>2. \A f \in D : Followed(f) =>
         /\ result[f] \in {"pass", "fail", "pending"}
         /\ f \notin s.pending /\ result[f] # "pending" => (result[f] = "fail" <=> Wrong(f))
  BY CheckFollowed
<1>3. \A f : \A o : f \in Having(result, o) <=> f \in D /\ result[f] = o
  BY DEF Having
<1> HIDE DEF result
<1>4. /\ asked \in FormState
      /\ asked.shown = s.shown /\ asked.waits = s.waits
      /\ asked.pending = s.pending \cup P
      /\ Answered(asked)
  BY <1>1, AskedRight
<1> HIDE DEF P, asked
<1>6. ASSUME NEW b \in FormState, b.answer = asked.answer, b.waits = asked.waits, b.pending = asked.pending,
             b.old = asked.old, b.request = asked.request, b.shown = asked.shown
      PROVE  ChecksLeave(s, result, Show(b, result))
  <2> DEFINE c == Show(b, result)
  <2>1. /\ c \in FormState
        /\ c.answer = asked.answer /\ c.waits = asked.waits /\ c.pending = asked.pending
        /\ c.old = asked.old /\ c.request = asked.request
        /\ \A f \in Fields : c.shown[f] = IF f \in Having(result, "fail") THEN OnError(f, s.shown[f])
                                          ELSE IF f \in Having(result, "pass") THEN OnSuccess(f, s.shown[f])
                                          ELSE s.shown[f]
    BY <1>4, <1>6, ShowIs
  <2> HIDE DEF c
  <2>2. Answered(c)
    BY <1>4, <2>1 DEF Answered, AnsweredOf
  <2>3. ASSUME NEW f \in D, f \notin c.pending, Followed(f)
        PROVE  Right(c, f)
    <3>1. f \notin s.pending /\ f \notin P
      BY <1>4, <2>1, <2>3
    <3>2. result[f] # "pending"
      BY <1>3, <3>1 DEF P
    <3>3. result[f] \in {"pass", "fail"} /\ (result[f] = "fail" <=> Wrong(f))
      BY <1>2, <2>3, <3>1, <3>2
    <3>4. c.shown[f] = IF result[f] = "fail" THEN OnError(f, s.shown[f]) ELSE OnSuccess(f, s.shown[f])
      BY <1>1, <1>3, <2>1, <3>3
    <3>5. /\ OnError(f, s.shown[f]).class = "error" /\ OnSuccess(f, s.shown[f]).class = "valid"
          /\ OnError(f, s.shown[f]).filled <=> f \in Replace \/ s.shown[f].filled
          /\ OnSuccess(f, s.shown[f]).filled <=> f \notin Replace /\ s.shown[f].filled
      BY DEF OnError, OnSuccess
    <3>6. CASE Wrong(f)
      <4>1. c.shown[f] = OnError(f, s.shown[f])
        BY <3>3, <3>4, <3>6
      <4> QED
        BY <3>5, <3>6, <4>1 DEF Right
    <3>7. CASE ~Wrong(f)
      <4>1. c.shown[f] = OnSuccess(f, s.shown[f])
        BY <3>3, <3>4, <3>7
      <4> QED
        BY <3>5, <3>7, <4>1 DEF Right
    <3> QED
      BY <3>6, <3>7
  <2>4. \A f \in Fields \ D : c.shown[f] = s.shown[f]
    BY <1>3, <2>1
  <2> QED
    BY <1>1, <1>4, <2>1, <2>2, <2>3, <2>4 DEF ChecksLeave, c, P
<1>7. ChecksLeave(s, result, Show(asked, result))
  BY <1>4, <1>6
<1>8. ChecksLeave(s, result, Show(OnErrors(asked), result))
  BY <1>4, <1>6, OnErrorsIs
<1> QED
  BY <1>7, <1>8 DEF result, P, asked

\* The inputs that are checked have rules.
LEMMA ElementsAre == Elements \subseteq DOMAIN settings
BY DEF Elements

\* The check of the whole form.
LEMMA FormCheckIs ==
    ASSUME Page, Ruled, NEW s \in FormState, Answered(s)
    PROVE  ChecksLeave(s, Results(s), FormCheck(s)) /\ DOMAIN Results(s) = Elements
<1> DEFINE result == [f \in Elements |-> Check(s, f)]
           asked == Ask(s, Having(result, "pending"))
<1>1. Results(s) = result
  BY DEF Results
<1>2. FormCheck(s) = Show(asked, result) \/ FormCheck(s) = Show(OnErrors(asked), result)
  BY <1>1 DEF FormCheck
<1>3. ChecksLeave(s, result, Show(asked, result)) /\ ChecksLeave(s, result, Show(OnErrors(asked), result))
  BY ElementsAre, ChecksAre
<1>4. DOMAIN result = Elements
  OBVIOUS
<1> HIDE DEF result, asked
<1> QED
  BY <1>1, <1>2, <1>3, <1>4

-----------------------------------------------------------------------------
(* The invariant.                                                          *)

\* Where the rules come from: the inputs of the first parse have theirs from the
\* ready event on, the validator's copy is made with or after it, and both are
\* what the attributes say, as long as the script can follow them.
RulesInv ==
    /\ doc.early \subseteq present
    /\ ready => doc.early \subseteq DOMAIN options
    /\ ~ready => present = doc.early /\ DOMAIN options = {} /\ ~Attached /\ posted = None
    /\ Attached => ready /\ doc.early \subseteq DOMAIN settings
    /\ ~Attached => DOMAIN settings = {}
    /\ \A f \in DOMAIN options : Followed(f) => options[f] = RulesOf(f)
    /\ \A f \in DOMAIN settings : Followed(f) => settings[f] = Rules(f)

\* What is entered, shown and sent, apart from what the requests add to it.
Shape ==
    /\ doc \in Pages /\ present \subseteq Fields /\ aside \in [Fields -> Asides]
    /\ DOMAIN options \subseteq present
    /\ DOMAIN settings \subseteq DOMAIN options
    /\ ready \in BOOLEAN /\ handlers \in 0..1
    /\ value \in [Fields -> Values]
    /\ form \in FormState /\ form.pending \subseteq DOMAIN settings
    /\ fresh \subseteq DOMAIN options
    /\ posted \in {None, "submit", "cancel", "ajax", "error"} /\ cancelSubmit \in BOOLEAN
    /\ drops \in 0..MaxDrops

Inv == Shape /\ RulesInv /\ Answered(form) /\ ShownAgrees /\ PostedIsValid

\* The type invariant follows.
LEMMA TypeFollows == Shape /\ Answered(form) => TypeOK
<1> SUFFICES ASSUME Shape, Answered(form) PROVE TypeOK
  OBVIOUS
<1>1. /\ form.shown \in [Fields -> Container] /\ form.summary \in {"valid", "errors"}
      /\ form.waits \in BOOLEAN /\ form.answer \in [Fields -> BOOLEAN]
  BY StateIs DEF Shape
<1>2. \A f \in Fields : form.request[f] # None => f \in form.pending
  BY DEF Answered, AnsweredOf
<1> QED
  BY <1>1, <1>2 DEF TypeOK, Shape

\* The invariant has what the lemmas about checks ask for.
LEMMA InvIs == Inv => Page /\ Ruled
BY DEF Inv, Shape, RulesInv, Page, Ruled

\* What is asked of an input only changes with what is entered.
LEMMA WrongStays ==
    ASSUME doc' = doc, value' = value, NEW CONSTANT f
    PROVE  (Wrong(f)' <=> Wrong(f)) /\ (Followed(f)' <=> Followed(f))
<1>1. Holds(f, value[f])' <=> Holds(f, value[f])
  BY DEF Holds, Asks, Named
<1>2. Refused(f)' <=> Refused(f)
  BY DEF Refused
<1> QED
  BY <1>1, <1>2, FollowedStays DEF Wrong

\* The rules stay right in a step that parses nothing.
LEMMA RulesKept ==
    ASSUME Inv, ready, UNCHANGED <<doc, present, options, settings, ready, handlers>>
    PROVE  RulesInv'
<1>1. Page /\ DOMAIN options \subseteq Fields /\ DOMAIN settings \subseteq Fields
  BY InvIs DEF Inv, Shape
<1>2. ASSUME NEW CONSTANT f \in Fields, Followed(f)
      PROVE  RulesOf(f)' = RulesOf(f) /\ Rules(f)' = Rules(f)
  BY <1>1, <1>2, RulesStay
<1>3. ASSUME NEW CONSTANT f
      PROVE  Followed(f)' <=> Followed(f)
  BY FollowedStays
<1>4. (\A f \in DOMAIN options : Followed(f) => options[f] = RulesOf(f))'
  BY <1>1, <1>2, <1>3 DEF Inv, RulesInv
<1>5. (\A f \in DOMAIN settings : Followed(f) => settings[f] = Rules(f))'
  BY <1>1, <1>2, <1>3 DEF Inv, RulesInv
<1> QED
  BY <1>4, <1>5 DEF Inv, RulesInv, Attached

\* A step that only checks: what is left to show of it.
CheckedWell ==
    /\ form' \in FormState /\ Answered(form') /\ form'.pending \subseteq DOMAIN settings
    /\ fresh' \subseteq DOMAIN options /\ \A f \in fresh' : Followed(f) => Right(form', f)

PostedWell ==
    /\ posted' \in {None, "submit", "cancel", "ajax", "error"}
    /\ posted' \in {"submit", "ajax"} =>
           \A f \in doc.early : aside[f] = None /\ Followed(f) =>
               Holds(f, value[f]) /\ (posted' = "submit" => ~Refused(f))
    /\ posted' = "error" => \E f \in DOMAIN settings : aside[f] = None /\ ~Followed(f)

\* A step that checks preserves the invariant.
LEMMA CheckedStep ==
    ASSUME Inv, ready, UNCHANGED <<doc, present, aside, options, settings, ready, handlers, value>>,
           drops' \in 0..MaxDrops, cancelSubmit' \in BOOLEAN, CheckedWell, PostedWell
    PROVE  Inv'
<1>1. RulesInv'
  BY RulesKept
<1>2. Shape'
  BY DEF Inv, Shape, CheckedWell, PostedWell
<1>3. Answered(form)'
  BY DEF CheckedWell, Answered, AnsweredOf
<1>4. ASSUME NEW CONSTANT f
      PROVE  (Wrong(f)' <=> Wrong(f)) /\ (Followed(f)' <=> Followed(f))
  BY WrongStays
<1>5. AllRight'
  BY <1>4 DEF AllRight, CheckedWell, Right
<1>6. ShownAgrees'
  BY <1>5, ShownAgreesIs, PTL
<1>7. ASSUME NEW CONSTANT f
      PROVE  (Holds(f, value[f])' <=> Holds(f, value[f])) /\ (Refused(f)' <=> Refused(f))
  BY DEF Holds, Asks, Named, Refused
<1>8. PostedIsValid'
  BY <1>4, <1>7 DEF PostedIsValid, PostedWell
<1> QED
  BY <1>1, <1>2, <1>3, <1>6, <1>8 DEF Inv

-----------------------------------------------------------------------------
(* The steps that check.                                                   *)

\* Two states that differ in the summary and in what waits, at most.
Alike(a, b) ==
    /\ a \in FormState
    /\ a.answer = b.answer /\ a.pending = b.pending
    /\ a.old = b.old /\ a.request = b.request /\ a.shown = b.shown

\* Such states are as right as each other.
LEMMA AlikeIs ==
    ASSUME NEW a, NEW b, Alike(a, b), Answered(b)
    PROVE  Answered(a) /\ \A f : Right(b, f) => Right(a, f)
BY DEF Alike, Answered, AnsweredOf, Right

\* A submission that waits, or no more, makes no other difference.
LEMMA WaitsAlike ==
    ASSUME NEW s \in FormState, NEW w \in BOOLEAN
    PROVE  Alike([s EXCEPT !.waits = w], s) /\ Alike([OnErrors(s) EXCEPT !.waits = w], s)
<1>1. OnErrors(s) \in FormState
  BY OnErrorsIs
<1>2. Alike([s EXCEPT !.waits = w], s)
  BY WaitsIs DEF Alike
<1>3. Alike([OnErrors(s) EXCEPT !.waits = w], OnErrors(s))
  BY <1>1, WaitsIs DEF Alike
<1>4. Alike(OnErrors(s), s)
  BY OnErrorsIs DEF Alike
<1> QED
  BY <1>2, <1>3, <1>4 DEF Alike

\* A form that passes is as its attributes ask, and no address refuses it once
\* nothing is pending.
LEMMA PassesWell ==
    ASSUME Inv, Attached, NEW s \in FormState, Answered(s), Passes(s)
    PROVE  \A f \in doc.early : aside[f] = None /\ Followed(f) =>
               Holds(f, value[f]) /\ (FormCheck(s).pending = {} => ~Refused(f))
<1>1. Page /\ Ruled
  BY InvIs
<1>2. SUFFICES ASSUME NEW f \in doc.early, aside[f] = None, Followed(f)
               PROVE  Holds(f, value[f]) /\ (FormCheck(s).pending = {} => ~Refused(f))
  OBVIOUS
<1>3. f \in Elements /\ f \in DOMAIN settings
  BY <1>2 DEF Inv, RulesInv, Elements
<1>4. Check(s, f) # "fail"
  BY <1>3 DEF Passes, Results, Having
<1>5. Holds(f, value[f])
  BY <1>1, <1>2, <1>3, <1>4, CheckFollowed
<1>6. ASSUME FormCheck(s).pending = {}
      PROVE  ~Refused(f)
  <2>1. ChecksLeave(s, Results(s), FormCheck(s))
    BY <1>1, FormCheckIs
  <2>2. f \notin s.pending /\ Having(Results(s), "pending") = {}
    BY <1>6, <2>1 DEF ChecksLeave
  <2>3. Check(s, f) # "pending"
    BY <1>3, <2>2 DEF Results, Having
  <2>4. ~Wrong(f)
    BY <1>1, <1>2, <1>3, <1>4, <2>2, <2>3, CheckFollowed
  <2> QED
    BY <2>4 DEF Wrong
<1> QED
  BY <1>5, <1>6

\* Only an attribute whose rule has no method makes a check throw.
LEMMA ThrowsUnfollowed ==
    ASSUME Inv, Throws(form)
    PROVE  \E f \in DOMAIN settings : aside[f] = None /\ ~Followed(f)
<1>1. Page /\ Ruled /\ Answered(form)
  BY InvIs DEF Inv
<1>2. PICK f \in DOMAIN settings : aside[f] = None /\ Check(form, f) = "throw"
  BY DEF Throws, Results, Having, Elements
<1>3. ~Followed(f)
  BY <1>1, <1>2, CheckFollowed
<1> QED
  BY <1>2, <1>3

\* What a check of the whole form leaves, and what is fresh after it: what was so
\* before and what it checks.
LEMMA FormChecked ==
    ASSUME Inv, NEW s \in FormState, Answered(s), s.pending \subseteq DOMAIN settings,
           NEW kept \in SUBSET DOMAIN options, \A f \in kept : Followed(f) => Right(s, f)
    PROVE  LET c == FormCheck(s)
           IN  /\ c \in FormState /\ Answered(c) /\ s.pending \subseteq c.pending /\ c.pending \subseteq DOMAIN settings
               /\ c.waits = s.waits
               /\ kept \cup Elements \subseteq DOMAIN options
               /\ \A f \in (kept \cup Elements) \ c.pending : Followed(f) => Right(c, f)
<1> DEFINE c == FormCheck(s)
<1>1. ChecksLeave(s, Results(s), c) /\ DOMAIN Results(s) = Elements
  BY InvIs, FormCheckIs
<1>2. Having(Results(s), "pending") \subseteq Elements
  BY <1>1 DEF Having
<1>3. DOMAIN settings \subseteq DOMAIN options /\ DOMAIN options \subseteq Fields
  BY DEF Inv, Shape
<1> HIDE DEF c
<1>4. ASSUME NEW f \in (kept \cup Elements) \ c.pending, Followed(f)
      PROVE  Right(c, f)
  <2>1. CASE f \in Elements
    BY <1>1, <1>4, <2>1 DEF ChecksLeave
  <2>2. CASE f \notin Elements
    <3>1. c.shown[f] = s.shown[f] /\ Right(s, f)
      BY <1>1, <1>3, <1>4, <2>2 DEF ChecksLeave
    <3> QED
      BY <3>1 DEF Right
  <2> QED
    BY <2>1, <2>2
<1> QED
  BY <1>1, <1>2, <1>3, <1>4, ElementsAre DEF ChecksLeave, c

\* A check that throws shows nothing and keeps the answers right.
LEMMA BegunIs ==
    ASSUME Inv, NEW s \in FormState, Answered(s), s.pending \subseteq DOMAIN settings, NEW b \in Begun(s)
    PROVE  b \in FormState /\ Answered(b) /\ b.pending \subseteq DOMAIN settings /\ b.shown = s.shown
<1>1. Page /\ Ruled
  BY InvIs
<1>2. DOMAIN Results(s) = Elements
  BY <1>1, FormCheckIs
<1>3. PICK asking \in SUBSET Elements : b = Ask(s, asking)
  BY <1>2 DEF Begun, Having
<1>4. asking \in SUBSET Fields /\ asking \subseteq DOMAIN settings
  BY <1>1, ElementsAre DEF Ruled
<1> QED
  BY <1>1, <1>3, <1>4, AskedRight

\* The parts of the invariant that the steps use.
LEMMA FormIs == Inv => /\ form \in FormState /\ Answered(form) /\ form.pending \subseteq DOMAIN settings
                       /\ fresh \subseteq DOMAIN options /\ \A f \in fresh : Followed(f) => Right(form, f)
                       /\ drops \in 0..MaxDrops /\ cancelSubmit \in BOOLEAN /\ (Attached => ready)
BY ShownAgreesIs DEF AllRight, Inv, Shape, RulesInv

\* The submit event sends what is checked.
LEMMA SubmitInv == Inv /\ Submit => Inv'
<1> SUFFICES ASSUME Inv, Submit PROVE Inv'
  OBVIOUS
<1> DEFINE c == FormCheck(form)
           w == c.waits \/ (Passes(form) /\ c.pending # {})
<1>1. /\ ready /\ Attached /\ drops' \in 0..MaxDrops /\ cancelSubmit' \in BOOLEAN
      /\ UNCHANGED <<doc, present, aside, options, settings, ready, handlers, value>>
  BY FormIs DEF Submit
<1>2. CASE Throws(form)
  <2>1. form' = form /\ fresh' = fresh /\ posted' = "error"
    BY <1>2 DEF Submit
  <2>2. CheckedWell
    BY <2>1, FormIs DEF CheckedWell
  <2>3. PostedWell
    BY <1>2, <2>1, NoneAssumption, ThrowsUnfollowed DEF PostedWell
  <2> QED
    BY <1>1, <2>2, <2>3, CheckedStep
<1>3. CASE ~Throws(form)
  <2>1. /\ form' = [c EXCEPT !.waits = w] /\ fresh' = (fresh \cup Elements) \ c.pending
        /\ posted' = IF Passes(form) /\ c.pending = {} THEN "submit" ELSE None
    BY <1>3 DEF Submit
  <2>2. /\ c \in FormState /\ Answered(c) /\ c.pending \subseteq DOMAIN settings
        /\ fresh \cup Elements \subseteq DOMAIN options
        /\ \A f \in (fresh \cup Elements) \ c.pending : Followed(f) => Right(c, f)
    BY FormIs, FormChecked
  <2>3. w \in BOOLEAN
    BY <2>2, StateIs DEF Passes
  <2>4. PostedWell
    BY <1>1, <2>1, FormIs, NoneAssumption, PassesWell DEF PostedWell
  <2> HIDE DEF c, w
  <2>5. Alike(form', c)
    BY <2>1, <2>2, <2>3, WaitsAlike
  <2>6. CheckedWell
    BY <2>1, <2>2, <2>5, AlikeIs DEF CheckedWell, Alike
  <2> QED
    BY <1>1, <2>4, <2>6, CheckedStep
<1> QED
  BY <1>2, <1>3

\* validate() sends what is not refused yet.
LEMMA ValidateInv == Inv /\ Validate => Inv'
<1> SUFFICES ASSUME Inv, Validate PROVE Inv'
  OBVIOUS
<1> DEFINE c == FormCheck(form)
<1>1. /\ ready /\ Attached /\ drops' \in 0..MaxDrops /\ cancelSubmit' \in BOOLEAN
      /\ UNCHANGED <<doc, present, aside, options, settings, ready, handlers, value>>
  BY FormIs DEF Validate
<1>2. CASE Throws(form)
  <2>1. form' \in Begun(form) /\ fresh' = fresh \ form'.pending /\ posted' = None
    BY <1>2 DEF Validate
  <2>2. form' \in FormState /\ Answered(form') /\ form'.pending \subseteq DOMAIN settings /\ form'.shown = form.shown
    BY <2>1, FormIs, BegunIs
  <2>3. CheckedWell
    BY <2>1, <2>2, FormIs DEF CheckedWell, Right
  <2>4. PostedWell
    BY <2>1, NoneAssumption DEF PostedWell
  <2> QED
    BY <1>1, <2>3, <2>4, CheckedStep
<1>3. CASE ~Throws(form)
  <2>1. /\ form' = c /\ fresh' = (fresh \cup Elements) \ c.pending
        /\ posted' = IF Passes(form) THEN "ajax" ELSE None
    BY <1>3 DEF Validate
  <2>2. /\ c \in FormState /\ Answered(c) /\ c.pending \subseteq DOMAIN settings
        /\ fresh \cup Elements \subseteq DOMAIN options
        /\ \A f \in (fresh \cup Elements) \ c.pending : Followed(f) => Right(c, f)
    BY FormIs, FormChecked
  <2>3. PostedWell
    BY <1>1, <2>1, FormIs, NoneAssumption, PassesWell DEF PostedWell
  <2> HIDE DEF c
  <2>4. CheckedWell
    BY <2>1, <2>2 DEF CheckedWell
  <2> QED
    BY <1>1, <2>3, <2>4, CheckedStep
<1> QED
  BY <1>2, <1>3

\* A button that cancels the validation is only clicked.
LEMMA ClickCancelInv == Inv /\ ClickCancel => Inv'
<1> SUFFICES ASSUME Inv, ClickCancel PROVE Inv'
  OBVIOUS
<1>1. /\ ready /\ drops' \in 0..MaxDrops /\ cancelSubmit' \in BOOLEAN /\ posted' = None
      /\ UNCHANGED <<doc, present, aside, options, settings, ready, handlers, value, form, fresh>>
  BY FormIs DEF ClickCancel
<1>2. CheckedWell
  BY <1>1, FormIs DEF CheckedWell
<1>3. PostedWell
  BY <1>1, NoneAssumption DEF PostedWell
<1> QED
  BY <1>1, <1>2, <1>3, CheckedStep

\* What it lets out is not called validated.
LEMMA SubmitCancelledInv == Inv /\ SubmitCancelled => Inv'
<1> SUFFICES ASSUME Inv, SubmitCancelled PROVE Inv'
  OBVIOUS
<1>1. /\ ready /\ drops' \in 0..MaxDrops /\ cancelSubmit' \in BOOLEAN /\ posted' = "cancel"
      /\ UNCHANGED <<doc, present, aside, options, settings, ready, handlers, value, form, fresh>>
  BY FormIs DEF SubmitCancelled
<1>2. CheckedWell
  BY <1>1, FormIs DEF CheckedWell
<1>3. PostedWell
  BY <1>1 DEF PostedWell
<1> QED
  BY <1>1, <1>2, <1>3, CheckedStep

\* One input is checked.
LEMMA ElementCheckInv == ASSUME NEW CONSTANT f \in Fields PROVE Inv /\ ElementCheck(f) => Inv'
<1> SUFFICES ASSUME Inv, ElementCheck(f) PROVE Inv'
  OBVIOUS
<1> DEFINE D == {f} \cap DOMAIN settings
           result == [g \in D |-> Check(form, g)]
           c == Show(Ask(form, Having(result, "pending")), result)
<1>1. /\ ready /\ drops' \in 0..MaxDrops /\ cancelSubmit' \in BOOLEAN /\ posted' = None
      /\ UNCHANGED <<doc, present, aside, options, settings, ready, handlers, value>>
  BY FormIs DEF ElementCheck
<1>2. form' = c /\ fresh' = (fresh \cup D) \ c.pending
  BY DEF ElementCheck
<1>3. ChecksLeave(form, result, c)
  BY InvIs, FormIs, ChecksAre
<1>4. Having(result, "pending") \subseteq D /\ D \subseteq DOMAIN options /\ DOMAIN result = D
  BY DEF Having, Inv, Shape
<1>5. PostedWell
  BY <1>1, NoneAssumption DEF PostedWell
<1> HIDE DEF c, result
<1>6. ASSUME NEW g \in fresh', Followed(g)
      PROVE  Right(c, g)
  <2>1. CASE g \in D
    BY <1>2, <1>3, <1>4, <1>6, <2>1 DEF ChecksLeave
  <2>2. CASE g \notin D
    <3>1. g \in fresh /\ g \in Fields
      BY <1>2, <1>6, <2>2 DEF Inv, Shape
    <3>2. c.shown[g] = form.shown[g] /\ Right(form, g)
      BY <1>3, <1>4, <1>6, <2>2, <3>1, FormIs DEF ChecksLeave
    <3> QED
      BY <3>2 DEF Right
  <2> QED
    BY <2>1, <2>2
<1>7. CheckedWell
  BY <1>2, <1>3, <1>4, <1>6, FormIs DEF CheckedWell, ChecksLeave
<1> QED
  BY <1>1, <1>5, <1>7, CheckedStep

\* The answer is taken in: what is kept of it is what the address says.
LEMMA ReceivedIs ==
    ASSUME Inv, NEW f \in Fields, form.request[f] # None, NEW ok \in BOOLEAN,
           ok <=> form.request[f].own \notin Taken
    PROVE  LET s == Received(f, ok)
           IN  /\ s \in FormState /\ Answered(s)
               /\ s.pending = form.pending \ {f}
               /\ \A g \in Fields \ {f} : s.shown[g] = form.shown[g]
<1> DEFINE shown == [form.shown EXCEPT ![f] = IF ok THEN OnSuccess(f, @) ELSE OnError(f, @)]
           answer == [form.answer EXCEPT ![f] = IF form.request[f].bound THEN ok ELSE @]
           request == [form.request EXCEPT ![f] = None]
           pending == form.pending \ {f}
           s == Received(f, ok)
<1>1. s = [form EXCEPT !.shown = shown, !.answer = answer, !.request = request, !.pending = pending]
  BY Zenon DEF Received
<1>2. /\ form \in FormState
      /\ form.shown \in [Fields -> Container] /\ form.old \in [Fields -> Key \cup {None}]
      /\ form.answer \in [Fields -> BOOLEAN] /\ form.request \in [Fields -> Request \cup {None}]
      /\ form.pending \in SUBSET Fields /\ form.summary \in {"valid", "errors"} /\ form.waits \in BOOLEAN
  BY FormIs, StateIs
<1>3. shown \in [Fields -> Container]
  <2>1. OnError(f, form.shown[f]) \in Container /\ OnSuccess(f, form.shown[f]) \in Container
    BY <1>2 DEF OnError, OnSuccess, Container
  <2> QED
    BY <1>2, <2>1
<1>4. answer \in [Fields -> BOOLEAN]
  BY <1>2
<1>5. request \in [Fields -> Request \cup {None}] /\ pending \in SUBSET Fields
  BY <1>2
<1>6. \A g \in Fields : /\ g # f => shown[g] = form.shown[g] /\ answer[g] = form.answer[g]
                        /\ request[g] = IF g = f THEN None ELSE form.request[g]
                        /\ g \in pending <=> g \in form.pending /\ g # f
  BY <1>2
<1>7. answer[f] = IF form.request[f].bound THEN ok ELSE form.answer[f]
  BY <1>2
<1> HIDE DEF shown, answer, request, pending, s
<1>8. s = [shown |-> shown, summary |-> form.summary, old |-> form.old, answer |-> answer,
           request |-> request, pending |-> pending, waits |-> form.waits]
  <2>1. form = [shown |-> form.shown, summary |-> form.summary, old |-> form.old, answer |-> form.answer,
                request |-> form.request, pending |-> form.pending, waits |-> form.waits]
    BY <1>2, StateIs
  <2> QED
    BY <1>1, <2>1
<1>9. s \in FormState
  BY <1>2, <1>3, <1>4, <1>5, <1>8, StateOf
<1>10. s.shown = shown /\ s.old = form.old /\ s.answer = answer /\ s.request = request /\ s.pending = pending
  BY <1>8
<1>11. ASSUME NEW g \in Fields
       PROVE  AnsweredOf(s, g)
  <2>1. AnsweredOf(form, g)
    BY FormIs DEF Answered
  <2>2. CASE g # f
    BY <1>6, <1>10, <2>1, <2>2 DEF AnsweredOf
  <2>3. CASE g = f
    <3>1. s.request[f] = None
      BY <1>6, <1>10
    <3>2. CASE form.request[f].bound
      BY <1>7, <1>10, <2>1, <2>3, <3>1, <3>2 DEF AnsweredOf
    <3>3. CASE ~form.request[f].bound
      BY <1>10, <2>1, <2>3, <3>1, <3>3 DEF AnsweredOf
    <3> QED
      BY <3>2, <3>3
  <2> QED
    BY <2>2, <2>3
<1> QED
  BY <1>6, <1>9, <1>10, <1>11 DEF Answered, s, pending

\* The last answer sends what waits for it, after two more checks.
LEMMA AnswerInv == ASSUME NEW CONSTANT f \in Fields PROVE Inv /\ Answer(f) => Inv'
<1> SUFFICES ASSUME Inv, Answer(f) PROVE Inv'
  OBVIOUS
<1> DEFINE ok == form.request[f].own \notin Taken
           s == Received(f, ok)
           again == FormCheck(s)
           resubmitted == IF cancelSubmit THEN again ELSE FormCheck(again)
           kept == fresh \ {f}
<1>1. /\ form.request[f] # None /\ drops' \in 0..MaxDrops
      /\ UNCHANGED <<doc, present, aside, options, settings, ready, handlers, value>>
  BY FormIs DEF Answer
<1>2. /\ s \in FormState /\ Answered(s)
      /\ s.pending = form.pending \ {f}
      /\ \A g \in Fields \ {f} : s.shown[g] = form.shown[g]
  <2>1. ok \in BOOLEAN
    OBVIOUS
  <2> QED
    BY <1>1, <2>1, ReceivedIs
<1>3. ready /\ Attached
  <2>1. f \in form.pending
    BY <1>1, FormIs DEF Answered, AnsweredOf
  <2> QED
    BY <2>1, FormIs DEF RulesInv, Inv
<1>4. s.pending \subseteq DOMAIN settings
  BY <1>2, FormIs
<1>5. kept \in SUBSET DOMAIN options /\ \A g \in kept : Followed(g) => Right(s, g)
  <2>1. ASSUME NEW g \in kept, Followed(g)
        PROVE  Right(s, g)
    <3>1. g \in Fields \ {f} /\ g \in fresh
      BY <2>1 DEF Inv, Shape
    <3>2. s.shown[g] = form.shown[g]
      BY <1>2, <3>1
    <3> QED
      BY <2>1, <3>1, <3>2, FormIs DEF Right
  <2> QED
    BY <2>1, FormIs
<1>6. /\ again \in FormState /\ Answered(again) /\ again.pending \subseteq DOMAIN settings
      /\ kept \cup Elements \subseteq DOMAIN options
      /\ \A g \in (kept \cup Elements) \ again.pending : Followed(g) => Right(again, g)
  BY <1>2, <1>4, <1>5, FormChecked
<1>7. /\ resubmitted \in FormState /\ Answered(resubmitted) /\ resubmitted.pending \subseteq DOMAIN settings
      /\ \A g \in (kept \cup Elements) \ resubmitted.pending : Followed(g) => Right(resubmitted, g)
  <2>1. CASE cancelSubmit
    BY <1>6, <2>1
  <2>2. CASE ~cancelSubmit
    <3> DEFINE shown == (kept \cup Elements) \ again.pending
    <3>1. resubmitted = FormCheck(again)
      BY <2>2
    <3>2. shown \in SUBSET DOMAIN options /\ \A g \in shown : Followed(g) => Right(again, g)
      BY <1>6
    <3> HIDE DEF shown, again, kept, resubmitted
    <3>3. /\ resubmitted \in FormState /\ Answered(resubmitted)
          /\ again.pending \subseteq resubmitted.pending /\ resubmitted.pending \subseteq DOMAIN settings
          /\ \A g \in (shown \cup Elements) \ resubmitted.pending : Followed(g) => Right(resubmitted, g)
      BY <1>6, <3>1, <3>2, FormChecked
    <3> QED
      BY <3>3 DEF shown
  <2> QED
    BY <2>1, <2>2
<1>8. \/ form' = s /\ fresh' = kept /\ posted' = None /\ UNCHANGED cancelSubmit
      \/ form' = [OnErrors(s) EXCEPT !.waits = FALSE] /\ fresh' = kept /\ posted' = None /\ UNCHANGED cancelSubmit
      \/ form' \in Begun(s) /\ fresh' = kept \ form'.pending /\ posted' = None /\ UNCHANGED cancelSubmit
      \/ /\ form' = again /\ fresh' = (kept \cup Elements) \ again.pending
         /\ posted' = None /\ UNCHANGED cancelSubmit
      \/ /\ form' = [resubmitted EXCEPT !.waits = FALSE]
         /\ fresh' = (kept \cup Elements) \ resubmitted.pending
         /\ posted' = IF cancelSubmit THEN "cancel"
                      ELSE IF Passes(again) /\ resubmitted.pending = {} THEN "submit" ELSE None
         /\ cancelSubmit' = FALSE
  BY Zenon DEF Answer
<1>9. ~cancelSubmit /\ Passes(again) => \A g \in doc.early : aside[g] = None /\ Followed(g) =>
         Holds(g, value[g]) /\ (resubmitted.pending = {} => ~Refused(g))
  BY <1>3, <1>6, PassesWell
<1> HIDE DEF ok, s, again, resubmitted, kept
<1>10. PostedWell /\ cancelSubmit' \in BOOLEAN
  BY <1>8, <1>9, FormIs, NoneAssumption DEF PostedWell
<1>11. ASSUME Alike(form', s), fresh' = kept
       PROVE  CheckedWell
  BY <1>2, <1>4, <1>5, <1>11, AlikeIs DEF CheckedWell, Alike
<1>12. ASSUME form' = s /\ fresh' = kept
       PROVE  CheckedWell
  BY <1>2, <1>11, <1>12 DEF Alike
<1>13. ASSUME form' = [OnErrors(s) EXCEPT !.waits = FALSE] /\ fresh' = kept
       PROVE  CheckedWell
  BY <1>2, <1>11, <1>13, WaitsAlike
<1>14. ASSUME form' = again /\ fresh' = (kept \cup Elements) \ again.pending
       PROVE  CheckedWell
  BY <1>6, <1>14 DEF CheckedWell
<1>15. ASSUME form' = [resubmitted EXCEPT !.waits = FALSE] /\ fresh' = (kept \cup Elements) \ resubmitted.pending
       PROVE  CheckedWell
  <2>1. Alike(form', resubmitted)
    BY <1>7, <1>15, WaitsAlike
  <2>2. form' \in FormState /\ form'.pending = resubmitted.pending
    BY <2>1 DEF Alike
  <2>3. Answered(form') /\ \A g : Right(resubmitted, g) => Right(form', g)
    BY <1>7, <2>1, AlikeIs
  <2> QED
    BY <1>6, <1>7, <1>15, <2>2, <2>3 DEF CheckedWell
<1>16. ASSUME form' \in Begun(s), fresh' = kept \ form'.pending
       PROVE  CheckedWell
  <2>1. form' \in FormState /\ Answered(form') /\ form'.pending \subseteq DOMAIN settings /\ form'.shown = s.shown
    BY <1>2, <1>4, <1>16, BegunIs
  <2> QED
    BY <1>5, <1>16, <2>1 DEF CheckedWell, Right
<1>17. CheckedWell
  BY <1>8, <1>12, <1>13, <1>14, <1>15, <1>16
<1> QED
  BY <1>1, <1>3, <1>10, <1>17, CheckedStep

\* A request that fails leaves its input pending.
LEMMA DropInv == ASSUME NEW CONSTANT f \in Fields PROVE Inv /\ Drop(f) => Inv'
<1> SUFFICES ASSUME Inv, Drop(f) PROVE Inv'
  OBVIOUS
<1> DEFINE request == [form.request EXCEPT ![f] = None]
<1>1. /\ form.request[f] # None /\ drops' = drops + 1 /\ drops < MaxDrops /\ posted' = None /\ fresh' = fresh
      /\ UNCHANGED <<doc, present, aside, options, settings, ready, handlers, value, cancelSubmit>>
      /\ form' = [form EXCEPT !.request = request]
  BY DEF Drop
<1>2. drops' \in 0..MaxDrops
  BY <1>1, FormIs, FormAssumption
<1>3. request \in [Fields -> Request \cup {None}]
      /\ \A g \in Fields : request[g] = IF g = f THEN None ELSE form.request[g]
  BY FormIs, StateIs
<1> HIDE DEF request
<1>4. form' \in FormState /\ form'.request = request /\ form'.shown = form.shown /\ form'.pending = form.pending
      /\ form'.old = form.old /\ form'.answer = form.answer
  BY <1>1, <1>3, FormIs DEF FormState
<1>5. ready
  <2>1. f \in form.pending
    BY <1>1, FormIs DEF Answered, AnsweredOf
  <2> QED
    BY <2>1, FormIs DEF Inv, RulesInv
<1>6. Answered(form')
  BY <1>3, <1>4, FormIs DEF Answered, AnsweredOf
<1>7. CheckedWell
  BY <1>1, <1>4, <1>6, FormIs DEF CheckedWell, Right
<1>8. PostedWell
  BY <1>1, NoneAssumption DEF PostedWell
<1> QED
  BY <1>1, <1>2, <1>5, <1>7, <1>8, FormIs, CheckedStep

-----------------------------------------------------------------------------
(* The steps that enter, reset and parse.                                  *)

\* A reset forgets the answers and unbinds the requests.
LEMMA OnResetInv == Inv /\ OnReset => Inv'
<1> SUFFICES ASSUME Inv, OnReset PROVE Inv'
  OBVIOUS
<1> DEFINE forgotten == Elements
           shown == [f \in Fields |-> [form.shown[f] EXCEPT !.class = "valid"]]
           old == [f \in Fields |-> IF f \in forgotten THEN None ELSE form.old[f]]
           answer == [f \in Fields |-> f \in forgotten \/ form.answer[f]]
           request == [f \in Fields |-> IF form.request[f] # None /\ f \in forgotten
                                        THEN [form.request[f] EXCEPT !.bound = FALSE] ELSE form.request[f]]
<1>1. /\ ready /\ value' = [f \in Fields |-> Blank] /\ fresh' = {} /\ posted' = None
      /\ UNCHANGED <<doc, present, aside, options, settings, ready, handlers, cancelSubmit, drops>>
  BY FormIs DEF OnReset
<1>2. form' = [form EXCEPT !.shown = shown, !.summary = "valid", !.old = old, !.answer = answer, !.request = request]
  BY Zenon DEF OnReset
<1>3. shown \in [Fields -> Container]
  <2>1. ASSUME NEW c \in Container PROVE [c EXCEPT !.class = "valid"] \in Container
    BY DEF Container
  <2> QED
    BY <2>1, FormIs, StateIs
<1>4. /\ old \in [Fields -> Key \cup {None}] /\ answer \in [Fields -> BOOLEAN]
      /\ \A f \in Fields : old[f] = IF f \in forgotten THEN None ELSE form.old[f]
      /\ \A f \in Fields \ forgotten : answer[f] = form.answer[f]
  BY FormIs, StateIs
<1>5. request \in [Fields -> Request \cup {None}]
  <2>1. ASSUME NEW r \in Request PROVE [r EXCEPT !.bound = FALSE] \in Request
    BY DEF Request
  <2> QED
    BY <2>1, FormIs, StateIs
<1>6. \A f \in Fields : /\ f \notin forgotten => request[f] = form.request[f]
                        /\ request[f] # None => form.request[f] # None
                        /\ f \in forgotten /\ request[f] # None => ~request[f].bound
  <2>1. ASSUME NEW r \in Request PROVE [r EXCEPT !.bound = FALSE].bound = FALSE
    BY DEF Request
  <2> QED
    BY <2>1, FormIs, StateIs
<1> HIDE DEF shown, old, answer, request, forgotten
<1>7. form' = [shown |-> shown, summary |-> "valid", old |-> old, answer |-> answer,
               request |-> request, pending |-> form.pending, waits |-> form.waits]
  <2>1. form = [shown |-> form.shown, summary |-> form.summary, old |-> form.old, answer |-> form.answer,
                request |-> form.request, pending |-> form.pending, waits |-> form.waits]
    BY FormIs, StateIs
  <2> QED
    BY <1>2, <2>1
<1>8. form' \in FormState
  BY <1>3, <1>4, <1>5, <1>7, FormIs, StateIs, StateOf
<1>9. form'.old = old /\ form'.answer = answer /\ form'.request = request /\ form'.pending = form.pending
  BY <1>7
<1>10. ASSUME NEW CONSTANT f \in Fields
       PROVE  AnsweredOf(form', f)
  <2>1. AnsweredOf(form, f)
    BY FormIs DEF Answered
  <2> QED
    BY <1>4, <1>6, <1>9, <2>1 DEF AnsweredOf
<1>11. Answered(form)'
  BY <1>10 DEF Answered, AnsweredOf
<1>12. Shape'
  BY <1>1, <1>8, <1>9, FormAssumption DEF Inv, Shape
<1>13. ShownAgrees' /\ PostedIsValid'
  BY <1>1, NoneAssumption DEF ShownAgrees, PostedIsValid
<1> QED
  BY <1>1, <1>11, <1>12, <1>13, RulesKept DEF Inv

\* What is asked of an input that names no other depends on its own value.
LEMMA OtherStays ==
    ASSUME doc' = doc, NEW CONSTANT g, value[g]' = value[g], "equalto" \notin DOMAIN doc.attrs[g]
    PROVE  Wrong(g)' <=> Wrong(g)
<1>1. ASSUME NEW CONSTANT a \in DOMAIN doc.attrs[g]
      PROVE  Asks(a, doc.attrs[g][a], g, value[g])' <=> Asks(a, doc.attrs[g][a], g, value[g])
  <2>1. a # "equalto"
    OBVIOUS
  <2> QED
    BY <2>1 DEF Asks
<1> QED
  BY <1>1 DEF Wrong, Holds, Refused

\* What is entered makes its readers unchecked.
LEMMA EnterInv == ASSUME NEW CONSTANT f \in Fields, NEW CONSTANT v \in Values PROVE Inv /\ Enter(f, v) => Inv'
<1> SUFFICES ASSUME Inv, Enter(f, v) PROVE Inv'
  OBVIOUS
<1>1. /\ ready /\ value' = [value EXCEPT ![f] = v] /\ fresh' = fresh \ Readers(f) /\ posted' = None
      /\ UNCHANGED <<doc, present, aside, options, settings, ready, handlers, form, cancelSubmit, drops>>
  BY DEF Enter
<1>2. RulesInv'
  BY <1>1, RulesKept
<1>3. Shape'
  BY <1>1 DEF Inv, Shape
<1>4. Answered(form)'
  BY <1>1, FormIs DEF Answered, AnsweredOf
<1>5. PostedIsValid'
  BY <1>1, NoneAssumption DEF PostedIsValid
<1>6. ASSUME NEW CONSTANT g, g \in fresh', Followed(g)
      PROVE  Right(form, g)'
  <2>1. g \in fresh /\ g \in Fields /\ g # f /\ "equalto" \notin DOMAIN doc.attrs[g]
    BY <1>1, <1>6 DEF Readers, Inv, Shape
  <2>2. value[g]' = value[g]
    BY <1>1, <2>1 DEF Inv, Shape
  <2>3. Wrong(g)' <=> Wrong(g)
    BY <1>1, <2>1, <2>2, OtherStays
  <2> QED
    BY <1>1, <1>6, <2>1, <2>3, FormIs DEF Right
<1>7. ASSUME NEW CONSTANT g
      PROVE  Followed(g)' <=> Followed(g)
  BY <1>1, FollowedStays
<1>8. ShownAgrees'
  <2>1. AllRight'
    BY <1>6, <1>7 DEF AllRight
  <2> QED
    BY <2>1, ShownAgreesIs, PTL
<1> QED
  BY <1>2, <1>3, <1>4, <1>5, <1>8 DEF Inv

\* An input that is set aside, or no longer, shows what it showed.
LEMMA SetAsideInv == ASSUME NEW CONSTANT f \in Fields, NEW CONSTANT how \in Asides PROVE Inv /\ SetAside(f, how) => Inv'
<1> SUFFICES ASSUME Inv, SetAside(f, how) PROVE Inv'
  OBVIOUS
<1>1. /\ ready /\ aside' = [aside EXCEPT ![f] = how] /\ posted' = None
      /\ UNCHANGED <<doc, present, options, settings, ready, handlers, value, form, fresh, cancelSubmit, drops>>
  BY DEF SetAside
<1>2. RulesInv'
  BY <1>1, RulesKept
<1>3. Shape'
  BY <1>1 DEF Inv, Shape
<1>4. Answered(form)'
  BY <1>1, FormIs DEF Answered, AnsweredOf
<1>5. PostedIsValid'
  BY <1>1, NoneAssumption DEF PostedIsValid
<1>6. ASSUME NEW CONSTANT g
      PROVE  (Wrong(g)' <=> Wrong(g)) /\ (Followed(g)' <=> Followed(g))
  BY <1>1, WrongStays
<1>7. AllRight'
  BY <1>1, <1>6, FormIs DEF AllRight, Right
<1>8. ShownAgrees'
  BY <1>7, ShownAgreesIs, PTL
<1> QED
  BY <1>2, <1>3, <1>4, <1>5, <1>8 DEF Inv

\* Inputs are parsed, and perhaps the validator is made.
LEMMA ParseStep ==
    ASSUME Inv, doc' = doc, present \subseteq present', present' \subseteq Fields, ready' = TRUE,
           DOMAIN options \subseteq DOMAIN options', DOMAIN options' \subseteq present',
           doc.early \subseteq DOMAIN options',
           \A f \in DOMAIN options' : options'[f] = RulesOf(f) \/ (f \in DOMAIN options /\ options'[f] = options[f]),
           AttachValidation \/ UNCHANGED <<settings, handlers>>
    PROVE  /\ RulesInv' /\ handlers' \in 0..1
           /\ DOMAIN settings' \subseteq DOMAIN options' /\ DOMAIN settings \subseteq DOMAIN settings'
<1>1. Page /\ DOMAIN options' \subseteq Fields
  BY InvIs
<1>2. ASSUME NEW CONSTANT f \in Fields, Followed(f)
      PROVE  RulesOf(f)' = RulesOf(f) /\ Rules(f)' = Rules(f)
  BY <1>1, <1>2, RulesStay
<1>3. ASSUME NEW CONSTANT f
      PROVE  Followed(f)' <=> Followed(f)
  BY FollowedStays
<1>4. \A f \in DOMAIN options' : Followed(f) => options'[f] = RulesOf(f)
  BY DEF Inv, RulesInv
<1>5. \A f \in DOMAIN settings : Followed(f) => settings[f] = Rules(f)
  BY DEF Inv, RulesInv
<1>6. CASE AttachValidation /\ ~Attached
  <2>1. handlers' = 1 /\ settings' = [f \in DOMAIN options' |-> Defined(options'[f])] /\ DOMAIN settings = {}
    BY <1>6 DEF AttachValidation, Inv, RulesInv
  <2>2. \A f \in DOMAIN settings' : Followed(f) => settings'[f] = Rules(f)
    BY <1>4, <2>1 DEF Rules
  <2>3. (\A f \in DOMAIN settings : Followed(f) => settings[f] = Rules(f))'
    BY <1>1, <1>2, <1>3, <2>1, <2>2
  <2>4. (\A f \in DOMAIN options : Followed(f) => options[f] = RulesOf(f))'
    BY <1>1, <1>2, <1>3, <1>4
  <2> QED
    BY <2>1, <2>3, <2>4 DEF RulesInv, Inv, Attached
<1>7. CASE UNCHANGED settings /\ (UNCHANGED handlers \/ (Attached /\ handlers' = 1))
  <2>1. (\A f \in DOMAIN settings : Followed(f) => settings[f] = Rules(f))'
    BY <1>1, <1>2, <1>3, <1>5, <1>7 DEF Inv, Shape
  <2>2. (\A f \in DOMAIN options : Followed(f) => options[f] = RulesOf(f))'
    BY <1>1, <1>2, <1>3, <1>4
  <2>3. Attached' <=> Attached
    BY <1>7 DEF Attached
  <2> QED
    BY <1>7, <2>1, <2>2, <2>3 DEF RulesInv, Inv, Shape
<1>8. AttachValidation /\ Attached => UNCHANGED settings /\ handlers' = 1
  BY DEF AttachValidation
<1> QED
  BY <1>6, <1>7, <1>8

\* What a step that only parses leaves as it was.
LEMMA ParsedStep ==
    ASSUME Inv, RulesInv', handlers' \in 0..1, present' \subseteq Fields,
           DOMAIN options \subseteq DOMAIN options', DOMAIN options' \subseteq present',
           DOMAIN settings' \subseteq DOMAIN options', DOMAIN settings \subseteq DOMAIN settings',
           ready' = TRUE, posted' = None, UNCHANGED <<doc, aside, value, form, fresh, cancelSubmit, drops>>
    PROVE  Inv'
<1>1. Shape'
  BY DEF Inv, Shape
<1>2. Answered(form)'
  BY FormIs DEF Answered, AnsweredOf
<1>3. PostedIsValid'
  BY NoneAssumption DEF PostedIsValid
<1>4. ASSUME NEW CONSTANT f
      PROVE  (Wrong(f)' <=> Wrong(f)) /\ (Followed(f)' <=> Followed(f))
  BY WrongStays
<1>5. AllRight'
  BY <1>4, FormIs DEF AllRight, Right
<1>6. ShownAgrees'
  BY <1>5, ShownAgreesIs, PTL
<1> QED
  BY <1>1, <1>2, <1>3, <1>6 DEF Inv

\* The first parse.
LEMMA ReadyInv == Inv /\ Ready => Inv'
<1> SUFFICES ASSUME Inv, Ready PROVE Inv'
  OBVIOUS
<1>1. /\ ~ready /\ ready' = TRUE /\ UNCHANGED <<doc, present, aside, value, form, fresh, posted, cancelSubmit, drops>>
      /\ options' = [f \in doc.early \cup DOMAIN options |-> IF f \in doc.early THEN RulesOf(f) ELSE options[f]]
      /\ AttachValidation \/ UNCHANGED <<settings, handlers>>
  BY DEF Ready, ParseElement
<1>2. present = doc.early /\ DOMAIN options = {} /\ posted' = None /\ present' \subseteq Fields
  BY <1>1 DEF Inv, RulesInv, Shape
<1>3. /\ DOMAIN options' = doc.early
      /\ \A f \in DOMAIN options' : options'[f] = RulesOf(f)
  BY <1>1, <1>2
<1>4. /\ RulesInv' /\ handlers' \in 0..1
      /\ DOMAIN settings' \subseteq DOMAIN options' /\ DOMAIN settings \subseteq DOMAIN settings'
  BY <1>1, <1>2, <1>3, ParseStep
<1> QED
  BY <1>1, <1>2, <1>3, <1>4, ParsedStep

\* A later parse, of one input.
LEMMA LoadInv == ASSUME NEW CONSTANT f \in Fields, NEW CONSTANT attach \in BOOLEAN
                 PROVE  Inv /\ Load(f, attach) => Inv'
<1> SUFFICES ASSUME Inv, Load(f, attach) PROVE Inv'
  OBVIOUS
<1>1. /\ ready /\ present' = present \cup {f} /\ posted' = None
      /\ UNCHANGED <<doc, aside, ready, value, form, fresh, cancelSubmit, drops>>
      /\ options' = [g \in {f} \cup DOMAIN options |-> IF g \in {f} THEN RulesOf(g) ELSE options[g]]
      /\ AttachValidation \/ UNCHANGED <<settings, handlers>>
  BY DEF Load, ParseElement
<1>2. present' \subseteq Fields /\ doc.early \subseteq DOMAIN options /\ DOMAIN options \subseteq present
  BY <1>1 DEF Inv, RulesInv, Shape
<1>3. /\ DOMAIN options' = {f} \cup DOMAIN options
      /\ \A g \in DOMAIN options' : options'[g] = RulesOf(g) \/ (g \in DOMAIN options /\ options'[g] = options[g])
  BY <1>1
<1>4. ready' = TRUE
  BY <1>1 DEF Inv, Shape
<1>5. /\ RulesInv' /\ handlers' \in 0..1
      /\ DOMAIN settings' \subseteq DOMAIN options' /\ DOMAIN settings \subseteq DOMAIN settings'
  BY <1>1, <1>2, <1>3, <1>4, ParseStep
<1> QED
  BY <1>1, <1>2, <1>3, <1>4, <1>5, ParsedStep

-----------------------------------------------------------------------------
(* The theorems.                                                           *)

\* The invariant holds of a document that is not ready yet.
LEMMA InitInv == Init => Inv
<1> SUFFICES ASSUME Init PROVE Inv
  OBVIOUS
<1>1. /\ doc \in Pages /\ present = doc.early /\ doc.early \subseteq Fields
      /\ DOMAIN options = {} /\ DOMAIN settings = {} /\ ready = FALSE /\ handlers = 0
      /\ fresh = {} /\ posted = None /\ cancelSubmit = FALSE /\ drops = 0
      /\ aside \in [Fields -> Asides]
  BY FormAssumption DEF Init
<1>2. form \in FormState
  BY DEF Init, FormState, Container
<1>3. form.pending = {} /\ \A f \in Fields : form.request[f] = None /\ form.old[f] = None
  BY DEF Init
<1>4. value \in [Fields -> Values]
  BY FormAssumption DEF Init
<1>5. drops \in 0..MaxDrops
  BY <1>1, FormAssumption
<1>6. Shape
  <2>1. handlers \in 0..1 /\ posted \in {None, "submit", "cancel", "ajax", "error"}
    BY <1>1
  <2>3. ready \in BOOLEAN
    BY Zenon DEF Init
  <2>2. /\ present \subseteq Fields /\ DOMAIN options \subseteq present /\ DOMAIN settings \subseteq DOMAIN options
        /\ fresh \subseteq DOMAIN options /\ form.pending \subseteq DOMAIN settings
    BY <1>1, <1>3
  <2> QED
    BY <1>1, <1>2, <1>4, <1>5, <2>1, <2>2, <2>3 DEF Shape
<1>7. RulesInv
  BY <1>1 DEF RulesInv, Attached
<1>8. Answered(form)
  BY <1>3 DEF Answered, AnsweredOf
<1>9. ShownAgrees /\ PostedIsValid
  BY <1>1, NoneAssumption DEF ShownAgrees, PostedIsValid
<1> QED
  BY <1>6, <1>7, <1>8, <1>9 DEF Inv

\* Every step preserves the invariant.
LEMMA NextInv == Inv /\ [Next]_vars => Inv'
<1> SUFFICES ASSUME Inv, [Next]_vars PROVE Inv'
  OBVIOUS
<1>1. CASE Ready
  BY <1>1, ReadyInv
<1>2. CASE Submit
  BY <1>2, SubmitInv
<1>3. CASE Validate
  BY <1>3, ValidateInv
<1>4. CASE OnReset
  BY <1>4, OnResetInv
<1>5. ASSUME NEW CONSTANT f \in Fields, NEW CONSTANT attach \in BOOLEAN, Load(f, attach)
      PROVE  Inv'
  BY <1>5, LoadInv
<1>6. ASSUME NEW CONSTANT f \in Fields, NEW CONSTANT v \in Values, Enter(f, v)
      PROVE  Inv'
  BY <1>6, EnterInv
<1>7. ASSUME NEW CONSTANT f \in Fields, ElementCheck(f)
      PROVE  Inv'
  BY <1>7, ElementCheckInv
<1>8. ASSUME NEW CONSTANT f \in Fields, Answer(f)
      PROVE  Inv'
  BY <1>8, AnswerInv
<1>9. ASSUME NEW CONSTANT f \in Fields, Drop(f)
      PROVE  Inv'
  BY <1>9, DropInv
<1>10. CASE ClickCancel
  BY <1>10, ClickCancelInv
<1>11. CASE SubmitCancelled
  BY <1>11, SubmitCancelledInv
<1>12. ASSUME NEW CONSTANT f \in Fields, NEW CONSTANT how \in Asides, SetAside(f, how)
       PROVE  Inv'
  BY <1>12, SetAsideInv
<1>13. CASE UNCHANGED vars
  <2>1. /\ UNCHANGED <<doc, present, aside, options, settings, ready, handlers, value, form>>
        /\ UNCHANGED <<fresh, posted, cancelSubmit, drops>>
    BY <1>13 DEF vars
  <2>2. RulesInv'
    <3>1. CASE ready
      BY <2>1, <3>1, RulesKept
    <3>2. CASE ~ready
      BY <2>1, <3>2 DEF Inv, RulesInv, Attached
    <3> QED
      BY <3>1, <3>2
  <2>3. Shape' /\ Answered(form)'
    BY <2>1 DEF Inv, Shape, Answered, AnsweredOf
  <2>4. ASSUME NEW CONSTANT f
        PROVE  /\ (Wrong(f)' <=> Wrong(f)) /\ (Followed(f)' <=> Followed(f))
               /\ (Holds(f, value[f])' <=> Holds(f, value[f])) /\ (Refused(f)' <=> Refused(f))
    BY <2>1, WrongStays DEF Holds, Asks, Named, Refused
  <2>5. AllRight'
    BY <2>1, <2>4, FormIs DEF AllRight, Right
  <2>6. ShownAgrees'
    BY <2>5, ShownAgreesIs, PTL
  <2>7. PostedIsValid'
    BY <2>1, <2>4 DEF Inv, PostedIsValid
  <2> QED
    BY <2>2, <2>3, <2>6, <2>7 DEF Inv
<1> QED
  BY <1>1, <1>2, <1>3, <1>4, <1>5, <1>6, <1>7, <1>8, <1>9, <1>10, <1>11, <1>12, <1>13 DEF Next

\* The invariant holds in every state: what the theorems follow from.
LEMMA Invariant == Spec => []Inv
BY InitInv, NextInv, PTL DEF Spec

\* Whatever the documents, the values and the order of the events, the form's
\* state is as declared and no parse binds a second handler to the reset event.
THEOREM TypeCorrect == Spec => []TypeOK
<1>1. Inv => TypeOK
  BY TypeFollows DEF Inv
<1> QED
  BY <1>1, Invariant, PTL

\* What validate() or the submit event lets out is valid: an input of the first
\* parse that is neither hidden nor disabled and that the script can follow is as
\* its attributes ask when the form is sent, and by the submit event no answer that
\* was late, lost or of before a reset lets one through that the address refuses.
\* The forms that go out unchecked are set apart: those of a button that cancels
\* the validation, and those of an attribute whose rule has no method.
THEOREM PostedValid == Spec => []PostedIsValid
<1>1. Inv => PostedIsValid
  BY DEF Inv
<1> QED
  BY <1>1, Invariant, PTL

\* The page tells the truth of every input that is untouched since its check.
THEOREM ShownRight == Spec => []ShownAgrees
<1>1. Inv => ShownAgrees
  BY DEF Inv
<1> QED
  BY <1>1, Invariant, PTL
=============================================================================
