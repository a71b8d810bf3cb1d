--------------------------- MODULE FormValidation ---------------------------
(***************************************************************************)
(* The script that validates a form in the browser before it is sent:      *)
(* jquery.validate.unobtrusive.js, on top of jquery.validate.js.  It reads *)
(* the data-val-* attributes of the inputs once (parse), hands them to a   *)
(* validator as rules, and shows in the page what the validator finds.     *)
(*                                                                         *)
(* One form, from the document's ready event until it is left.  A handler  *)
(* of an event runs to its end before the next one; only the answer of a   *)
(* remote validation comes later.  Every input has data-val=true and a     *)
(* name of its own.  Texts are their length, their number of characters    *)
(* that are no letter or digit, and which patterns they match.             *)
(***************************************************************************)
EXTENDS Integers, Sequences, SequencesExt, FiniteSetsExt

CONSTANTS
    Fields,             \* names of inputs: <<"Input", "Password">> for Input.Password
    Replace,            \* the inputs whose container says data-valmsg-replace="true"
    Pages,              \* the documents: the attributes, the inputs that are
                        \* checkboxes, those of the first parse, those that may be
                        \* hidden or disabled, and whether a button cancels
    Values,             \* what may be entered
    Conforms(_, _, _),  \* method, parameter, value: the methods that read the text
    Taken,              \* what the address of a remote validation refuses
    None,               \* undefined
    MaxDrops            \* bound: requests that fail

Blank == [len |-> 0, odd |-> 0]

\* The attributes with bounds, which are whole numbers.
Bounded == {"length", "range", "minlength", "maxlength"}

ASSUME FormAssumption ==
    /\ Replace \subseteq Fields
    /\ \A f \in Fields : f \in Seq(STRING) /\ f # <<>>
    /\ \A page \in Pages : page.early \subseteq Fields /\ page.boxes \subseteq Fields /\ DOMAIN page.attrs = Fields
                           /\ page.movable \subseteq Fields /\ page.cancels \in BOOLEAN
    /\ Blank \in Values /\ Blank \notin Taken
    /\ Values \subseteq [len : Nat, odd : Nat] /\ \A v \in Values : v.odd <= v.len
    /\ MaxDrops \in Nat

\* The name of another input: as it is, or beside the one that names it ("*.").
Name == [starred : BOOLEAN, name : Seq(STRING)]

\* What an attribute is given is defined; the bounds are whole numbers.
ASSUME AttributeAssumption ==
    \A page \in Pages : \A f \in Fields : \A a \in DOMAIN page.attrs[f] :
        LET given == page.attrs[f][a]
        IN  /\ \A p \in DOMAIN given : given[p] # None
            /\ a \in Bounded => \A p \in DOMAIN given : given[p] \in Nat
            /\ a = "equalto" => "other" \in DOMAIN given /\ given["other"] \in Name

ASSUME NoneAssumption ==
    /\ None \notin BOOLEAN /\ None \notin {"submit", "cancel", "ajax", "error", "hidden", "disabled"} /\ None \notin Fields
    /\ None \notin Nat \X Nat /\ \A inputs \in SUBSET Fields : None # inputs
    /\ None \notin [own : Values, more : SUBSET (Fields \X Values)]

VARIABLES
    doc,        \* the document, of Pages
    present,    \* the inputs in the document
    aside,      \* aside[f]: that an input is hidden (and perhaps disabled) or disabled, or None
    options,    \* options.rules of the form's validationInfo, by input
    settings,   \* the validator's copy of them
    ready,      \* the document's ready event has been handled
    handlers,   \* handlers bound to the form's reset event
    value,      \* value[f]: what is entered
    form,       \* what the validator keeps and the page shows, see FormState
    fresh,      \* history: the inputs that nothing has touched since they were checked
    posted,     \* what the last step sent the form by, or None
    cancelSubmit, \* a button was clicked that cancels the next validation
    drops

vars == <<doc, present, aside, options, settings, ready, handlers, value, form, fresh, posted, cancelSubmit, drops>>

-----------------------------------------------------------------------------
(* Adapters: from attributes to rules, in the order they are registered.   *)

GetModelPrefix(name) == Front(name)

AppendModelPrefix(other, prefix) == IF other.starred THEN prefix \o other.name ELSE other.name

\* An adapter: its name, the kind of function it is, and methods it names.
Add(name, kind, methods) == [name |-> name, kind |-> kind, methods |-> methods]
AddBool(name) == Add(name, "bool", <<name>>)
AddSingleVal(name, attribute, method) == Add(name, "single", <<attribute, method>>)

\* minlength and maxlength give two and three of the rules; the third is undefined to them.
AddMinMax(name, minRule, maxRule, minMaxRule) == Add(name, "minmax", <<minRule, maxRule, minMaxRule>>)

\* An adapter sets parameters, by method.
Setting(method, param) == [m \in {method} |-> param]

MinMaxRule(methods, min, max) ==
    IF min # None /\ max # None THEN Setting(methods[3], <<min, max>>)
    ELSE IF min # None THEN Setting(methods[1], min)
    ELSE IF max # None THEN Setting(methods[2], max)
    ELSE <<>>

\* The first input of that name in the form, undefined when there is none yet.
EqualTo(f, other) ==
    LET name == AppendModelPrefix(other, GetModelPrefix(f))
    IN  Setting("equalTo", IF name \in present THEN name ELSE None)

Required(f) == IF f \in doc.boxes THEN <<>> ELSE Setting("required", TRUE)

\* The inputs whose values go with the request; its own when none is named.
Remote(f, additional) ==
    Setting("remote", IF additional = None THEN {f}
                      ELSE {g \in Fields : \E other \in additional : g = AppendModelPrefix(other, GetModelPrefix(f))})

Password(min, nonalphamin, regex) ==
    LET given == [minlength |-> min, nonalphamin |-> nonalphamin, regex |-> regex]
    IN  [m \in {n \in DOMAIN given : given[n] # None} |-> given[m]]

Adapters == <<
    AddSingleVal("extension", "extension", "accept"), AddSingleVal("regex", "pattern", "regex"),
    AddBool("creditcard"), AddBool("date"), AddBool("digits"), AddBool("email"), AddBool("number"), AddBool("url"),
    AddMinMax("length", "minlength", "maxlength", "rangelength"), AddMinMax("range", "min", "max", "range"),
    AddMinMax("minlength", "minlength", None, None), AddMinMax("maxlength", "minlength", "maxlength", None),
    Add("equalto", "equalto", <<>>), Add("required", "required", <<>>), Add("remote", "remote", <<>>),
    Add("password", "password", <<>>), AddSingleVal("fileextensions", "extensions", "extension")>>

Adapt(f, i) ==
    LET adapter == Adapters[i]
        given == doc.attrs[f][adapter.name]
        p(name) == IF name \in DOMAIN given THEN given[name] ELSE None
    IN  CASE adapter.kind = "bool"     -> Setting(adapter.methods[1], TRUE)
          [] adapter.kind = "single"   -> Setting(adapter.methods[2], p(adapter.methods[1]))
          [] adapter.kind = "minmax"   -> MinMaxRule(adapter.methods, p("min"), p("max"))
          [] adapter.kind = "equalto"  -> EqualTo(f, p("other"))
          [] adapter.kind = "required" -> Required(f)
          [] adapter.kind = "remote"   -> Remote(f, p("additionalfields"))
          [] adapter.kind = "password" -> Password(p("min"), p("nonalphamin"), p("regex"))

\* The adapters that the attributes of f call for, one after the other.
Applied(f) == {i \in DOMAIN Adapters : Adapters[i].name \in DOMAIN doc.attrs[f]}

\* A rule set twice keeps its place and takes the later value.
SetValidationValues(f, method) ==
    LET setters == {i \in Applied(f) : method \in DOMAIN Adapt(f, i)}
    IN  [place |-> Min(setters), param |-> Adapt(f, Max(setters))[method]]

Adapted(f) == [m \in UNION {DOMAIN Adapt(f, i) : i \in Applied(f)} |-> SetValidationValues(f, m)]

\* Mutant: the rule that always holds is left out.
RulesOf_NoDummy(f) == Adapted(f)

RulesOf(f) == [m \in DOMAIN Adapted(f) \cup {"__dummy__"} |->
    IF m = "__dummy__" THEN [place |-> Len(Adapters) + 1, param |-> TRUE] ELSE Adapted(f)[m]]

-----------------------------------------------------------------------------
(* Methods: what the validator makes of one input.                         *)

\* What the validator keeps and the page shows: the container of each input's
\* message, the class of the summary, the answers and requests of remote
\* validation, and whether a submission waits for one (formSubmitted).  Which
\* message is shown is left out.
Container == [class : {"valid", "error"}, filled : BOOLEAN]
Key == [own : Values, more : SUBSET (Fields \X Values)]
Request == [own : Values, bound : BOOLEAN]
FormState == [shown : [Fields -> Container], summary : {"valid", "errors"},
              old : [Fields -> Key \cup {None}], answer : [Fields -> BOOLEAN],
              request : [Fields -> Request \cup {None}], pending : SUBSET Fields, waits : BOOLEAN]

\* The methods that hold for an empty input by a dependency mismatch.
OptionalMethods == {"minlength", "maxlength", "rangelength", "min", "max", "range",
                    "date", "digits", "email", "number", "url", "remote"}
Methods == OptionalMethods \cup {"required", "equalTo", "regex", "nonalphamin", "__dummy__"}

ASSUME MethodAssumption == None \notin Methods

Passed(holds) == IF holds THEN "pass" ELSE "fail"

RemoteKey(f, names) == [own |-> value[f], more |-> {<<g, value[g]>> : g \in names \cap present}]

\* The number that is asked for may be 0: with none at all it still fails.
NonAlphaMin(v, n) == v.odd > 0 /\ v.odd >= n

Regex(v, pattern) == v = Blank \/ Conforms("regex", pattern, v)

Method(s, f, method, p) ==
    LET v == value[f]
    IN  CASE method = "__dummy__"   -> "pass"
          [] method = "required"    -> Passed(v.len > 0)
          [] method = "equalTo"     -> Passed(v = value[p])
          [] method = "regex"       -> Passed(Regex(v, p))
          [] method = "nonalphamin" -> Passed(NonAlphaMin(v, p))
          [] method = "minlength"   -> Passed(v.len >= p)
          [] method = "maxlength"   -> Passed(v.len <= p)
          [] method = "rangelength" -> Passed(v.len \in p[1]..p[2])
          [] method = "remote"      -> IF s.old[f] = RemoteKey(f, p) THEN Passed(s.answer[f]) ELSE "pending"
          [] OTHER                  -> Passed(Conforms(method, p, v))

Outcome(s, f, method, p) ==
    IF method \notin Methods THEN "throw"
    ELSE IF method \in OptionalMethods /\ value[f] = Blank THEN "mismatch" ELSE Method(s, f, method, p)

\* Required comes first and remote last, the others as they were set.
Turn(rules, method) ==
    CASE method = "required" -> 0 [] method = "remote" -> Len(Adapters) + 2 [] OTHER -> rules[method].place

First(rules, methods) == CHOOSE m \in methods : \A n \in methods : Turn(rules, m) <= Turn(rules, n)

\* The first rule that does not hold decides; a mismatch only counts when the
\* rule is the only one.
Check(s, f) ==
    LET rules == settings[f]
        outcome(m) == Outcome(s, f, m, rules[m].param)
        decisive == {m \in DOMAIN rules : outcome(m) \notin {"pass", "mismatch"}}
    IN  IF decisive # {} THEN outcome(First(rules, decisive))
        ELSE IF Cardinality(DOMAIN rules) = 1 /\ \E m \in DOMAIN rules : outcome(m) = "mismatch"
        THEN "mismatch" ELSE "pass"

-----------------------------------------------------------------------------
(* What the page shows.                                                    *)

\* The label is new every time: the last one has lost its error class, or was
\* never put into the page, and is not found again.
OnError(f, container) == [class |-> "error", filled |-> f \in Replace \/ container.filled]

OnSuccess(f, container) == [class |-> "valid", filled |-> f \notin Replace /\ container.filled]

\* The summary is filled when a whole form is refused and not cleared when it passes.
OnErrors(s) == [s EXCEPT !.summary = "errors"]

Having(result, outcome) == {f \in DOMAIN result : result[f] = outcome}

Show(s, result) ==
    [s EXCEPT !.shown = [f \in Fields |->
        IF f \in Having(result, "fail") THEN OnError(f, @[f])
        ELSE IF f \in Having(result, "pass") THEN OnSuccess(f, @[f])
        ELSE @[f]]]

\* The requests of the inputs whose check is pending; an earlier one is aborted.
Ask(s, asking) ==
    [s EXCEPT !.old = [f \in Fields |-> IF f \in asking THEN RemoteKey(f, settings[f]["remote"].param)
                                                           ELSE @[f]],
                  !.request = [f \in Fields |-> IF f \in asking THEN [own |-> value[f], bound |-> TRUE] ELSE @[f]],
                  !.pending = @ \cup asking]

\* elements(): every input with rules that is neither hidden nor disabled.
Elements == {f \in DOMAIN settings \cap present : aside[f] = None}

\* form(), which shows nothing when a check throws: the inputs before that one may
\* have begun their requests.
Results(s) == [f \in Elements |-> Check(s, f)]
Throws(s) == Having(Results(s), "throw") # {}
Passes(s) == Having(Results(s), "fail") = {}
FormCheck(s) ==
    LET result == Results(s)
        asked == Ask(s, Having(result, "pending"))
    IN  Show(IF Having(result, "fail") = {} THEN asked ELSE OnErrors(asked), result)
Begun(s) == {Ask(s, asking) : asking \in SUBSET Having(Results(s), "pending")}

-----------------------------------------------------------------------------
(* Steps.                                                                  *)

Asides == {None, "hidden", "disabled"}

Init ==
    /\ doc \in Pages
    /\ present = doc.early
    /\ aside \in [Fields -> Asides] /\ \A f \in Fields \ doc.movable : aside[f] = None
    /\ options = <<>> /\ settings = <<>> /\ ready = FALSE /\ handlers = 0
    /\ value = [f \in Fields |-> Blank]
    /\ form = [shown |-> [f \in Fields |-> [class |-> "valid", filled |-> FALSE]], summary |-> "valid",
               old |-> [f \in Fields |-> None], answer |-> [f \in Fields |-> TRUE],
               request |-> [f \in Fields |-> None], pending |-> {}, waits |-> FALSE]
    /\ fresh = {} /\ posted = None /\ cancelSubmit = FALSE /\ drops = 0

\* Nothing follows a post that leaves the page.
OnPage == posted \in {None, "ajax"}

\* Each input parsed gets its rules anew; the others keep theirs.
ParseElement(inputs) ==
    options' = [f \in inputs \cup DOMAIN options |-> IF f \in inputs THEN RulesOf(f) ELSE options[f]]

\* attachValidation has been called: there is a validator.
Attached == handlers > 0

\* What a copy of the rules takes over.
Defined(rules) == [m \in {n \in DOMAIN rules : rules[n].param # None} |-> rules[m]]

\* Mutant: the handler bound before is not taken off.
AttachValidation_Again ==
    /\ handlers' = handlers + 1
    /\ settings' = IF Attached THEN settings ELSE [f \in DOMAIN options' |-> Defined(options'[f])]

\* The form's validator is made once, from a copy of the rules known by then
\* without the undefined parameters; every later time it stays as it is.
AttachValidation ==
    /\ handlers' = 1
    /\ settings' = IF Attached THEN settings ELSE [f \in DOMAIN options' |-> Defined(options'[f])]

\* parse(document), on the ready event.
Ready ==
    /\ ~ready /\ ready' = TRUE
    /\ ParseElement(doc.early)
    /\ IF doc.early = {} THEN UNCHANGED <<settings, handlers>> ELSE AttachValidation
    /\ UNCHANGED <<doc, present, aside, value, form, fresh, posted, cancelSubmit, drops>>

\* The page's own script puts one more input into the form, and parses it.
Load(f, attach) ==
    /\ ready /\ OnPage /\ f \notin present
    /\ present' = present \cup {f}
    /\ ParseElement({f})
    /\ IF attach THEN AttachValidation ELSE UNCHANGED <<settings, handlers>>
    /\ posted' = None
    /\ UNCHANGED <<doc, aside, ready, value, form, fresh, cancelSubmit, drops>>

\* The inputs whose meaning reads the value of f.
Readers(f) == {f} \cup {g \in Fields : "equalto" \in DOMAIN doc.attrs[g]}

Enter(f, v) ==
    /\ ready /\ OnPage /\ f \in present /\ v # value[f]
    /\ value' = [value EXCEPT ![f] = v]
    /\ fresh' = fresh \ Readers(f)
    /\ posted' = None
    /\ UNCHANGED <<doc, present, aside, options, settings, ready, handlers, form, cancelSubmit, drops>>

\* The page, or a script of its own, hides or disables an input, or ends that.
SetAside(f, how) ==
    /\ ready /\ OnPage /\ f \in doc.movable /\ how # aside[f]
    /\ aside' = [aside EXCEPT ![f] = how]
    /\ posted' = None
    /\ UNCHANGED <<doc, present, options, settings, ready, handlers, value, form, fresh, cancelSubmit, drops>>

\* A button with class cancel or formnovalidate.  The submit event follows, unless
\* the page keeps it from coming.
ClickCancel ==
    /\ OnPage /\ Attached /\ doc.cancels
    /\ cancelSubmit' = TRUE
    /\ posted' = None
    /\ UNCHANGED <<doc, present, aside, options, settings, ready, handlers, value, form, fresh, drops>>

\* element(): on leaving an input, on a key, on leaving the target of an equalTo,
\* which does not ask whether the input is disabled.
ElementCheck(f) ==
    /\ OnPage /\ Attached /\ f \in present /\ aside[f] # "hidden"
    /\ LET result == [g \in {f} \cap DOMAIN settings |-> Check(form, g)]
       IN  /\ Having(result, "throw") = {}
           /\ form' = Show(Ask(form, Having(result, "pending")), result)
           /\ fresh' = (fresh \cup DOMAIN result) \ form'.pending
    /\ posted' = None
    /\ UNCHANGED <<doc, present, aside, options, settings, ready, handlers, value, cancelSubmit, drops>>

\* Mutant: a form that waits for an answer is sent all the same.
Submit_NotWaiting ==
    /\ OnPage /\ Attached /\ ~cancelSubmit
    /\ form' = IF Throws(form) THEN form ELSE FormCheck(form)
    /\ fresh' = IF Throws(form) THEN fresh ELSE (fresh \cup Elements) \ form'.pending
    /\ posted' = IF Throws(form) THEN "error" ELSE IF Passes(form) THEN "submit" ELSE None
    /\ UNCHANGED <<doc, present, aside, options, settings, ready, handlers, value, cancelSubmit, drops>>

\* The submit event.  A check that throws does not keep the browser from sending.
Submit ==
    /\ OnPage /\ Attached /\ ~cancelSubmit
    /\ LET checked == FormCheck(form)
       IN  IF Throws(form)
           THEN form' = form /\ fresh' = fresh /\ posted' = "error"
           ELSE /\ form' = [checked EXCEPT !.waits = @ \/ (Passes(form) /\ checked.pending # {})]
                /\ fresh' = (fresh \cup Elements) \ checked.pending
                /\ posted' = IF Passes(form) /\ checked.pending = {} THEN "submit" ELSE None
    /\ UNCHANGED <<doc, present, aside, options, settings, ready, handlers, value, cancelSubmit, drops>>

\* The submit event that a button has cancelled the validation of: whichever comes
\* next is let out unchecked.
SubmitCancelled ==
    /\ OnPage /\ Attached /\ cancelSubmit
    /\ cancelSubmit' = FALSE
    /\ posted' = "cancel"
    /\ UNCHANGED <<doc, present, aside, options, settings, ready, handlers, value, form, fresh, drops>>

\* validate(), which unobtrusive Ajax asks before it sends the form itself: it
\* does not wait for the answers and sends nothing when a check throws.
Validate ==
    /\ OnPage /\ Attached
    /\ IF Throws(form)
       THEN form' \in Begun(form) /\ fresh' = fresh \ form'.pending /\ posted' = None
       ELSE /\ form' = FormCheck(form)
            /\ fresh' = (fresh \cup Elements) \ form'.pending
            /\ posted' = IF Passes(form) THEN "ajax" ELSE None
    /\ UNCHANGED <<doc, present, aside, options, settings, ready, handlers, value, cancelSubmit, drops>>

\* The reset event, then the inputs' first values: what is shown is marked as
\* valid and the texts stay.  A reset raised on the way finds the flag set.  The
\* requests go on, and so does the submission that waits for one.
OnReset ==
    /\ OnPage /\ Attached
    /\ value' = [f \in Fields |-> Blank]
    /\ form' = [form EXCEPT
           !.shown = [f \in Fields |-> [@[f] EXCEPT !.class = "valid"]],
           !.summary = "valid",
           !.old = [f \in Fields |-> IF f \in Elements THEN None ELSE @[f]],
           !.answer = [f \in Fields |-> f \in Elements \/ @[f]],
           !.request = [f \in Fields |-> IF @[f] # None /\ f \in Elements
                                         THEN [@[f] EXCEPT !.bound = FALSE] ELSE @[f]]]
    /\ fresh' = {} /\ posted' = None
    /\ UNCHANGED <<doc, present, aside, options, settings, ready, handlers, cancelSubmit, drops>>

\* The answer is shown whatever has become of the input since, and is kept for
\* the next check unless the form has been reset.
Received(f, ok) ==
    [form EXCEPT
        !.shown[f] = IF ok THEN OnSuccess(f, @) ELSE OnError(f, @),
        !.answer[f] = IF form.request[f].bound THEN ok ELSE @,
        !.request[f] = None,
        !.pending = @ \ {f}]

\* With the last answer a submission that waits is checked again and, when the
\* form passes, submitted again, which checks it once more unless a button has
\* cancelled that meanwhile.  A check that throws leaves it waiting.
Answer(f) ==
    /\ OnPage /\ form.request[f] # None
    /\ LET ok == form.request[f].own \notin Taken
           s == Received(f, ok)
           again == FormCheck(s)
           resubmitted == IF cancelSubmit THEN again ELSE FormCheck(again)
       IN  IF s.pending # {} \/ ~s.waits
           THEN form' = s /\ fresh' = fresh \ {f} /\ posted' = None /\ UNCHANGED cancelSubmit
           ELSE IF ~ok
           THEN /\ form' = [OnErrors(s) EXCEPT !.waits = FALSE]
                /\ fresh' = fresh \ {f} /\ posted' = None /\ UNCHANGED cancelSubmit
           ELSE IF Throws(s)
           THEN /\ form' \in Begun(s)
                /\ fresh' = (fresh \ {f}) \ form'.pending /\ posted' = None /\ UNCHANGED cancelSubmit
           ELSE IF ~Passes(s)
           THEN /\ form' = again /\ fresh' = ((fresh \ {f}) \cup Elements) \ again.pending
                /\ posted' = None /\ UNCHANGED cancelSubmit
           ELSE /\ form' = [resubmitted EXCEPT !.waits = FALSE]
                /\ fresh' = ((fresh \ {f}) \cup Elements) \ resubmitted.pending
                /\ posted' = IF cancelSubmit THEN "cancel"
                             ELSE IF Passes(again) /\ resubmitted.pending = {} THEN "submit" ELSE None
                /\ cancelSubmit' = FALSE
    /\ UNCHANGED <<doc, present, aside, options, settings, ready, handlers, value, drops>>

\* A request fails: the validator has no handler for that and waits on.
Drop(f) ==
    /\ OnPage /\ form.request[f] # None /\ drops < MaxDrops
    /\ drops' = drops + 1
    /\ form' = [form EXCEPT !.request[f] = None]
    /\ posted' = None
    /\ UNCHANGED <<doc, present, aside, options, settings, ready, handlers, value, fresh, cancelSubmit>>

Next ==
    \/ Ready \/ ClickCancel \/ Submit \/ SubmitCancelled \/ Validate \/ OnReset
    \/ \E f \in Fields :
          \/ \E attach \in BOOLEAN : Load(f, attach)
          \/ \E v \in Values : Enter(f, v)
          \/ \E how \in Asides : SetAside(f, how)
          \/ ElementCheck(f) \/ Answer(f) \/ Drop(f)

Spec == Init /\ [][Next]_vars

-----------------------------------------------------------------------------
(* Properties.                                                             *)

\* The form's state is as declared, and however often an input is parsed one
\* handler, at most, is bound to the form's reset event.
TypeOK ==
    /\ doc \in Pages /\ present \subseteq Fields /\ aside \in [Fields -> Asides]
    /\ DOMAIN options \subseteq present
    /\ DOMAIN settings \subseteq DOMAIN options
    /\ ready \in BOOLEAN /\ handlers \in 0..1
    /\ value \in [Fields -> Values]
    /\ form.shown \in [Fields -> Container]
    /\ form.summary \in {"valid", "errors"} /\ form.waits \in BOOLEAN
    /\ form.answer \in [Fields -> BOOLEAN]
    /\ form.pending \subseteq DOMAIN options
    /\ \A f \in Fields : form.request[f] # None => f \in form.pending
    /\ fresh \subseteq DOMAIN options
    /\ posted \in {None, "submit", "cancel", "ajax", "error"} /\ cancelSubmit \in BOOLEAN /\ drops \in 0..MaxDrops

\* The input with that name, beside f when it is given as "*.".
Named(g, other, f) == IF other.starred THEN Front(g) = Front(f) /\ <<Last(g)>> = other.name ELSE g = other.name

\* What an attribute asks of a value, in its own words.
Asks(validator, given, f, v) ==
    LET has(p) == p \in DOMAIN given
    IN  CASE validator = "required"  -> f \in doc.boxes \/ v # Blank
          [] validator = "equalto"   -> \A g \in Fields : Named(g, given.other, f) => value[g] = v
          [] validator = "password"  ->
                 /\ has("nonalphamin") => v.odd > 0 /\ v.odd >= given.nonalphamin
                 /\ v # Blank /\ has("min") => v.len >= given.min
                 /\ v # Blank /\ has("regex") => Conforms("regex", given.regex, v)
          [] validator \in {"length", "minlength", "maxlength"} ->
                 v # Blank => (has("min") => v.len >= given.min) /\ (has("max") => v.len <= given.max)
          [] validator = "range"     ->
                 v # Blank => IF has("min") /\ has("max") THEN Conforms("range", <<given.min, given.max>>, v)
                              ELSE \A bound \in {"min", "max"} : has(bound) => Conforms(bound, given[bound], v)
          [] validator = "regex"     -> v # Blank /\ has("pattern") => Conforms("regex", given.pattern, v)
          [] validator = "remote"    -> TRUE
          [] OTHER                   -> v # Blank => Conforms(validator, TRUE, v)

\* The inputs that the script can follow: every attribute has an adapter, none
\* sets a rule without a method or the rule of another one, and the other input
\* of an equalto does not come later.
Followed(f) ==
    LET given == doc.attrs[f]
    IN  /\ \A a \in DOMAIN given : \E i \in DOMAIN Adapters : Adapters[i].name = a
        /\ \A i \in Applied(f) : DOMAIN Adapt(f, i) \subseteq Methods
        /\ \A i, j \in Applied(f) : i # j => DOMAIN Adapt(f, i) \cap DOMAIN Adapt(f, j) = {}
        /\ "equalto" \in DOMAIN given =>
               \E g \in doc.early : Named(g, given.equalto.other, f)

Holds(f, v) == \A a \in DOMAIN doc.attrs[f] : Asks(a, doc.attrs[f][a], f, v)
Refused(f) == "remote" \in DOMAIN doc.attrs[f] /\ value[f] \in Taken

\* What leaves the page has been validated: every input of the first parse that
\* can be seen and used is then as its attributes ask, and no remote validation
\* would refuse it unless it is sent by unobtrusive Ajax.  An input that is hidden
\* or disabled is not asked, and a form goes out unchecked in two ways only: a
\* button has cancelled the validation (posted = "cancel"), or an attribute has a
\* rule without a method.  (Submit, Answer: jquery.validate.js elements, stopRequest.)
PostedIsValid ==
    /\ posted \in {"submit", "ajax"} =>
           \A f \in doc.early : aside[f] = None /\ Followed(f) =>
               Holds(f, value[f]) /\ (posted = "submit" => ~Refused(f))
    /\ posted = "error" => \E f \in DOMAIN settings : aside[f] = None /\ ~Followed(f)

\* As long as nothing touches an input after its check, its container shows an
\* error, and holds a message if it takes one, exactly when the value is not what
\* the attributes ask, whatever order checks, answers, failed requests and resets
\* have come in before, and whether it can be seen or not.  (onError, onSuccess, onReset, parseElement.)
ShownAgrees ==
    \A f \in fresh : Followed(f) =>
        LET wrong == ~Holds(f, value[f]) \/ Refused(f)
        IN  /\ form.shown[f].class = "error" <=> wrong
            /\ f \in Replace => (form.shown[f].filled <=> wrong)
=============================================================================
