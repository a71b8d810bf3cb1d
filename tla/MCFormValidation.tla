-------------------------- MODULE MCFormValidation --------------------------
EXTENDS FormValidation, TLC

User == <<"Input", "User">>
Pass == <<"Input", "Password">>
Conf == <<"Input", "Confirm">>
MCFields == {User, Pass, Conf}

One == [len |-> 1, odd |-> 0]
Two == [len |-> 2, odd |-> 1]
MCValues == {Blank, One, Two}
MCTaken == {Two}

\* The text matches a pattern when it is one of its values.
MCConforms(method, param, v) == v = Two

MCReplace == {User, Conf}
Other == [starred |-> TRUE, name |-> <<"Password">>]
Page(early, boxes, movable, cancels, user, pass, conf) ==
    [early |-> early, boxes |-> boxes, movable |-> movable, cancels |-> cancels,
     attrs |-> (User :> user) @@ (Pass :> pass) @@ (Conf :> conf)]
Yes == [on |-> TRUE]

MCPages == {
    \* A registration: a name that is free, a password, and the password again.
    Page(MCFields, {}, {}, TRUE, "required" :> Yes @@ "remote" :> Yes,
                   "password" :> [min |-> 2, nonalphamin |-> 1], "equalto" :> [other |-> Other]),
    \* Nothing is required; the other password is part of what is asked; the third input comes late.
    Page({User, Pass}, {}, {User}, FALSE, "remote" :> [additionalfields |-> {Other}],
                   "length" :> [min |-> 1, max |-> 1], "required" :> Yes @@ "equalto" :> [other |-> Other]),
    \* The password comes late, and the confirmation does not find it.
    Page({User, Conf}, {}, {User}, FALSE, "regex" :> [pattern |-> {Two}] @@ "minlength" :> [min |-> 2],
                   "required" :> Yes, "equalto" :> [other |-> Other]),
    \* A form that is loaded with all its inputs, one a checkbox.
    Page({}, {User}, {Conf}, FALSE, "required" :> Yes, "maxlength" :> [max |-> 1], "email" :> Yes),
    \* Two attributes for one rule, a rule without a method, and an answer that finds it.
    Page(MCFields, {}, {Pass}, FALSE, "length" :> [max |-> 1] @@ "maxlength" :> [max |-> 2],
                   "required" :> Yes @@ "creditcard" :> Yes, "remote" :> Yes) }
=============================================================================
