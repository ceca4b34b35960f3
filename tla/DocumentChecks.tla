--------------------------- MODULE DocumentChecks ---------------------------
(***************************************************************************)
(* One document between its text and the rules: the contract of an         *)
(* extraction (src/agents/schemas/extraction.py, common.py) and the        *)
(* deterministic rules (src/agents/rules.py) of the checklist templates    *)
(* (src/cases/checklists.py).  The other modules see an extraction as one  *)
(* value, and the verdicts of the rules as the relation Passing.           *)
(*                                                                         *)
(* A text is a sequence of pieces, stretches that no quote or value cuts.  *)
(* A piece is glued to the one before it or comes after white space, of    *)
(* any amount.  A value has the form that decides how Python's parsers     *)
(* read it; n is the day or the amount it stands for, days count from the  *)
(* day the document was uploaded.                                          *)
(***************************************************************************)
EXTENDS Integers, Sequences, FiniteSets

CONSTANTS
    Pieces,         \* pieces of text, up to case
    Punctuation,    \* those that \w+ does not match
    Codes,          \* currency codes
    Sources,        \* the texts a document may have
    Applicants,     \* the names an applicant may have
    Answers,        \* what the document review agent may answer
    NoExtraction,
    MaxDay          \* bound on asOf

Text == Seq([piece : Pieces, upper : BOOLEAN, glued : BOOLEAN])

\* "grouped" is 12_500, which Decimal reads; "basic" is 20270228, which both read.
Form == {"words", "iso_date", "basic", "number", "grouped", "infinity", "nan", "currency"}
Value == [form : Form, n : Int, code : Codes, text : Text]
Field == [name : STRING, value : Value, evidence : Text]

FIELD_SPECS ==
    [passport |->
        [full_name |-> "text", passport_number |-> "text", nationality |-> "text",
         date_of_birth |-> "date", expiry_date |-> "date"],
     employment_letter |->
        [employee_name |-> "text", employer_name |-> "text", job_title |-> "text",
         start_date |-> "date", annual_salary |-> "money"],
     bank_statement |->
        [account_holder |-> "text", statement_date |-> "date",
         closing_balance |-> "money", currency |-> "currency"],
     degree_certificate |->
        [graduate_name |-> "text", degree |-> "text", institution |-> "text",
         award_date |-> "date"],
     unknown |-> [name \in {} |-> "text"]]

DocumentType == DOMAIN FIELD_SPECS

Answer == [type : DocumentType, fields : Seq(Field)]

ASSUME DocumentChecksAssumption ==
    /\ Punctuation \subseteq Pieces
    /\ Sources \subseteq Text
    /\ Applicants \subseteq Text
    /\ Answers \subseteq Answer
    /\ NoExtraction \notin Answers
    /\ MaxDay \in Nat

-----------------------------------------------------------------------------
(***************************************************************************)
(* DocumentExtractionResult.  document_id is that of the branch; issues    *)
(* and confidences decide nothing.                                         *)
(***************************************************************************)
ReadsAsDate(v) == v.form \in {"iso_date", "basic"}
ReadsAsDecimal(v) == v.form \in {"basic", "number", "grouped", "infinity", "nan"}

\* Variant: dates are left to the rules.
HasFormatButDates(v, kind) ==
    /\ kind = "money" => ReadsAsDecimal(v)
    /\ kind = "currency" => v.form = "currency"

HasFormat(v, kind) ==
    /\ kind = "date" => ReadsAsDate(v)
    /\ kind = "money" => ReadsAsDecimal(v)
    /\ kind = "currency" => v.form = "currency"

UniqueFieldNames(fields) ==
    \A i, j \in DOMAIN fields : fields[i].name = fields[j].name => i = j

MatchesSpec(f, spec) == f.name \in DOMAIN spec /\ HasFormat(f.value, spec[f.name])

\* normalize_text: without case, and without white space around it.
Normalized(t) ==
    [i \in DOMAIN t |-> [piece |-> t[i].piece, glued |-> t[i].glued /\ i > 1]]

\* needle in haystack, which may start in the middle of a word
Contains(haystack, needle) ==
    \E k \in 0 .. Len(haystack) - Len(needle) :
        \A i \in 1 .. Len(needle) :
            /\ haystack[k + i].piece = needle[i].piece
            /\ i > 1 => haystack[k + i].glued = needle[i].glued

Quotes(text, quote) == Contains(Normalized(text), Normalized(quote))

\* Variant: the value need not be in its evidence.
EvidenceIsEnough(f, kind) == TRUE

ValueInEvidence(f, kind) == kind = "text" => Quotes(f.evidence, f.value.text)

FieldsMatchSpec(answer) ==
    \A i \in DOMAIN answer.fields : MatchesSpec(answer.fields[i], FIELD_SPECS[answer.type])

GroundedInSource(answer, source) ==
    \A i \in DOMAIN answer.fields :
        LET f == answer.fields[i] IN
        /\ Quotes(source, f.evidence)
        /\ f.name \in DOMAIN FIELD_SPECS[answer.type] =>
               ValueInEvidence(f, FIELD_SPECS[answer.type][f.name])

Valid(answer, source) ==
    /\ UniqueFieldNames(answer.fields)
    /\ FieldsMatchSpec(answer)
    /\ GroundedInSource(answer, source)

-----------------------------------------------------------------------------
(***************************************************************************)
(* The rules.                                                              *)
(***************************************************************************)
Required(fields) == [rule |-> "required_fields", fields |-> fields]
MinValidity(field, days) == [rule |-> "min_validity_days", field |-> field, days |-> days]
MinAmount(field, amount, currency) ==
    [rule |-> "min_amount", field |-> field, amount |-> amount, currency |-> currency]
NameMatches(field) == [rule |-> "name_matches_applicant", field |-> field]

TEMPLATES ==
    [work_permit |->
        [identity |->
            [types |-> {"passport"},
             rules |-> {Required({"full_name", "passport_number", "expiry_date"}),
                        MinValidity("expiry_date", 180), NameMatches("full_name")}],
         job_offer |->
            [types |-> {"employment_letter"},
             rules |-> {Required({"employer_name", "job_title", "start_date"}),
                        NameMatches("employee_name")}],
         proof_of_funds |->
            [types |-> {"bank_statement"},
             rules |-> {MinAmount("closing_balance", 10000, "EUR"),
                        NameMatches("account_holder")}]],
     study_permit |->
        [identity |->
            [types |-> {"passport"},
             rules |-> {MinValidity("expiry_date", 365), NameMatches("full_name")}],
         prior_education |->
            [types |-> {"degree_certificate"},
             rules |-> {Required({"degree", "institution"}), NameMatches("graduate_name")}],
         proof_of_funds |->
            [types |-> {"bank_statement"},
             rules |-> {MinAmount("closing_balance", 8000, "EUR")}]]]

CaseType == DOMAIN TEMPLATES

\* DocumentExtractionResult.value: the value of a field, as a set, empty for None.
ValuesOf(ex, name) ==
    {ex.fields[i].value : i \in {j \in DOMAIN ex.fields : ex.fields[j].name = name}}

IsWord(t, i) == t[i].piece \notin Punctuation
Glued(t, i) == i > 1 /\ t[i].glued /\ IsWord(t, i - 1)
WordStarts(t) == {i \in DOMAIN t : IsWord(t, i) /\ ~Glued(t, i)}

\* The word at i: its pieces up to the next white space or punctuation.
WordAt(t, i) ==
    [n \in {m \in 0 .. Len(t) - i : \A k \in 1 .. m : IsWord(t, i + k) /\ t[i + k].glued}
        |-> t[i + n].piece]

CountOf(w, t) == Cardinality({i \in WordStarts(t) : WordAt(t, i) = w})

\* _name_tokens: equal when sorted, so the same words, each equally often.
SameName(s, t) ==
    /\ \A i \in WordStarts(s) : CountOf(WordAt(s, i), t) = CountOf(WordAt(s, i), s)
    /\ \A i \in WordStarts(t) : CountOf(WordAt(t, i), s) = CountOf(WordAt(t, i), t)

\* Variant: the comparison is turned round.
TooLate(v, deadline) == v.n > deadline

TooEarly(v, deadline) == v.n < deadline

\* Infinity is below no amount; a comparison with NaN raises InvalidOperation,
\* as does what Decimal cannot read, and both count as a failure.
Insufficient(v, amount) ==
    \/ v.form \notin {"basic", "number", "grouped", "infinity"}
    \/ v.form # "infinity" /\ v.n < amount

Missing(r, ex) ==
    IF r.rule = "required_fields"
    THEN \E f \in r.fields : ValuesOf(ex, f) = {}
    ELSE ValuesOf(ex, r.field) = {}

Violated(r, ex, today, name) ==
    \/ /\ r.rule = "min_validity_days"
       /\ \E v \in ValuesOf(ex, r.field) : TooEarly(v, today + r.days)
    \/ /\ r.rule = "min_amount"
       /\ \/ \A v \in ValuesOf(ex, "currency") : v.code # r.currency
          \/ \E v \in ValuesOf(ex, r.field) : Insufficient(v, r.amount)
    \/ /\ r.rule = "name_matches_applicant"
       /\ \E v \in ValuesOf(ex, r.field) : ~SameName(v.text, name)

\* date.fromisoformat
Raises(r, ex) ==
    r.rule = "min_validity_days" /\ \E v \in ValuesOf(ex, r.field) : ~ReadsAsDate(v)

CheckRequirement(requirement, ex, today, name) ==
    IF ex.type \notin requirement.types THEN "failed"
    ELSE IF \E r \in requirement.rules : Raises(r, ex) THEN "raised"
    ELSE IF \E r \in requirement.rules : Missing(r, ex) \/ Violated(r, ex, today, name)
    THEN "failed"
    ELSE "passed"

-----------------------------------------------------------------------------
VARIABLES
    caseType, applicant, source,    \* of the document's case, and its text
    extraction,     \* the validated answer, which a human may have accepted
    asOf,           \* today, when a snapshot is taken
    verdict         \* what the newest check of each requirement said

case == <<caseType, applicant, source>>
vars == <<case, extraction, asOf, verdict>>

Init ==
    /\ caseType \in CaseType
    /\ applicant \in Applicants
    /\ source \in Sources
    /\ extraction = NoExtraction
    /\ asOf = 0
    /\ verdict = [code \in DOMAIN TEMPLATES[caseType] |-> "unchecked"]

\* The agent's answer passes its validator; the others are AgentLoop's matter.
Extract ==
    /\ extraction = NoExtraction
    /\ extraction' \in {a \in Answers : Valid(a, source)}
    /\ UNCHANGED <<case, asOf, verdict>>

\* _check_requirement, in this review or in a later one
Check(code) ==
    /\ extraction # NoExtraction
    /\ verdict' = [verdict EXCEPT ![code] =
           CheckRequirement(TEMPLATES[caseType][code], extraction, asOf, applicant)]
    /\ UNCHANGED <<case, extraction, asOf>>

\* build_snapshot pins as_of to the day of the review.
NextDay ==
    /\ asOf < MaxDay
    /\ asOf' = asOf + 1
    /\ UNCHANGED <<case, extraction, verdict>>

Next ==
    \/ Extract
    \/ \E code \in DOMAIN TEMPLATES[caseType] : Check(code)
    \/ NextDay

Spec == Init /\ [][Next]_vars

-----------------------------------------------------------------------------
\* The pieces of word w stand side by side in the text.
WrittenIn(w, text) ==
    \E j \in DOMAIN text :
        \A n \in DOMAIN w :
            /\ j + n \in DOMAIN text
            /\ text[j + n].piece = w[n]
            /\ n > 0 => text[j + n].glued

\* What leaves the agent has the fields of its document type and no others.
TypeOK ==
    /\ caseType \in CaseType /\ applicant \in Applicants /\ source \in Sources
    /\ asOf \in 0 .. MaxDay
    /\ verdict \in [DOMAIN TEMPLATES[caseType] -> {"unchecked", "passed", "failed", "raised"}]
    /\ extraction \in Answers \cup {NoExtraction}
    /\ extraction # NoExtraction =>
           \A i \in DOMAIN extraction.fields :
               extraction.fields[i].name \in DOMAIN FIELD_SPECS[extraction.type]

\* No check raises, which would end the review of the whole case: every template
\* reads a date only from a field whose format the contract has checked.
RulesNeverRaise ==
    \A code \in DOMAIN verdict : verdict[code] # "raised"

\* A requirement with a rule about the name is only passed by a document in which
\* every word of the applicant's name is written: the quote is in the text, the value
\* in the quote, and the value is the name, in any order and case.  A word of the
\* document may go on before it and behind it: Ann is written in "Joanna".
NamesAreInDocument ==
    \A code \in DOMAIN verdict :
        /\ verdict[code] = "passed"
        /\ \E r \in TEMPLATES[caseType][code].rules : r.rule = "name_matches_applicant"
        => \A i \in WordStarts(applicant) : WrittenIn(WordAt(applicant, i), source)

\* A document that failed a requirement never passes it on a later day: dates only
\* expire, so an accepted extraction need not be read again.
FailedStaysFailed ==
    [][\A code \in DOMAIN verdict : verdict[code] = "failed" => verdict'[code] = "failed"]_vars

-----------------------------------------------------------------------------
\* The extraction is valid, and a verdict is that of some day up to today.
ChecksInv ==
    /\ extraction # NoExtraction => Valid(extraction, source)
    /\ \A code \in DOMAIN verdict :
          verdict[code] # "unchecked" =>
              /\ extraction # NoExtraction
              /\ \E day \in 0 .. asOf :
                    verdict[code] = CheckRequirement(TEMPLATES[caseType][code], extraction,
                                                     day, applicant)

IndInv == TypeOK /\ ChecksInv
=============================================================================
