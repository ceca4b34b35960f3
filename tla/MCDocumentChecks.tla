-------------------------- MODULE MCDocumentChecks --------------------------
(***************************************************************************)
(* Passports and bank statements of Ann Lee and of Joann Lee, whose name   *)
(* contains hers, with answers that quote and read them well or badly.     *)
(***************************************************************************)
EXTENDS DocumentChecks

CONSTANTS ann, jo, lee, comma, balance

Lower(p) == [piece |-> p, upper |-> FALSE, glued |-> FALSE]
Upper(p) == [piece |-> p, upper |-> TRUE, glued |-> FALSE]
Joined(p) == [piece |-> p, upper |-> FALSE, glued |-> TRUE]

AnnLee == <<Lower(ann), Lower(lee)>>
LeeCommaAnn == <<Upper(lee), Joined(comma), Upper(ann)>>
JoannLee == <<Upper(jo), Joined(ann), Lower(lee)>>

SomeSources ==
    {LeeCommaAnn \o <<Lower(balance)>>, <<Upper(balance)>> \o JoannLee, <<Lower(balance)>>}
SomeApplicants == {AnnLee, JoannLee}

Plain(form, n) == [form |-> form, n |-> n, code |-> "EUR", text |-> <<>>]
Words(t) == [form |-> "words", n |-> 0, code |-> "EUR", text |-> t]
Euro == Plain("currency", 0)
Dollar == [Euro EXCEPT !.code = "USD"]
FieldOf(name, value, evidence) == [name |-> name, value |-> value, evidence |-> evidence]

Names == {AnnLee, LeeCommaAnn, JoannLee, <<>>}
Quote == {LeeCommaAnn, JoannLee, <<Lower(balance)>>}
Dates == {Plain("iso_date", 181), Plain("basic", 366), Words(AnnLee)}
Amounts == {Plain("number", 9000), Plain("grouped", 12500), Plain("infinity", 0),
            Plain("nan", 0), Words(AnnLee)}

Passport(name, number, expiry, quote) ==
    [type |-> "passport",
     fields |-> <<FieldOf("full_name", Words(name), quote),
                  FieldOf(number, Words(<<>>), <<>>), FieldOf("expiry_date", expiry, quote)>>]
Statement(name, amount, currency, quote) ==
    [type |-> "bank_statement",
     fields |-> <<FieldOf("account_holder", Words(name), quote),
                  FieldOf("closing_balance", amount, quote),
                  FieldOf("currency", currency, <<>>)>>]
Unread == [type |-> "unknown", fields |-> <<>>]

SomeAnswers ==
    {Passport(n, number, e, q) :
        n \in Names, number \in {"passport_number", "degree"}, e \in Dates, q \in Quote}
    \cup {Statement(n, a, c, q) : n \in Names, a \in Amounts, c \in {Euro, Dollar}, q \in Quote}
    \cup {Unread}
=============================================================================
