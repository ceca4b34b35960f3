------------------------ MODULE DocumentChecksProofs ------------------------
(***************************************************************************)
(* The rules on validated extractions, for any texts, names and answers.   *)
(***************************************************************************)
EXTENDS DocumentChecks, FiniteSetTheorems, TLAPS

\* In the templates of a work permit, dates and names are read from such fields.
LEMMA WorkPermitFields ==
  ASSUME NEW code \in DOMAIN TEMPLATES["work_permit"],
         NEW type \in TEMPLATES["work_permit"][code].types,
         NEW r \in TEMPLATES["work_permit"][code].rules
  PROVE  /\ r.rule = "min_validity_days" => FIELD_SPECS[type][r.field] = "date"
         /\ r.rule = "name_matches_applicant" => FIELD_SPECS[type][r.field] = "text"
<1>1. CASE code = "identity"
  BY <1>1 DEF TEMPLATES, FIELD_SPECS, Required, MinValidity, NameMatches, MinAmount
<1>2. CASE code = "job_offer"
  BY <1>2 DEF TEMPLATES, FIELD_SPECS, Required, MinValidity, NameMatches, MinAmount
<1>3. CASE code = "proof_of_funds"
  BY <1>3 DEF TEMPLATES, FIELD_SPECS, Required, MinValidity, NameMatches, MinAmount
<1> QED
  BY <1>1, <1>2, <1>3 DEF TEMPLATES

\* The same for a study permit.
LEMMA StudyPermitFields ==
  ASSUME NEW code \in DOMAIN TEMPLATES["study_permit"],
         NEW type \in TEMPLATES["study_permit"][code].types,
         NEW r \in TEMPLATES["study_permit"][code].rules
  PROVE  /\ r.rule = "min_validity_days" => FIELD_SPECS[type][r.field] = "date"
         /\ r.rule = "name_matches_applicant" => FIELD_SPECS[type][r.field] = "text"
<1>1. CASE code = "identity"
  BY <1>1 DEF TEMPLATES, FIELD_SPECS, Required, MinValidity, NameMatches, MinAmount
<1>2. CASE code = "prior_education"
  BY <1>2 DEF TEMPLATES, FIELD_SPECS, Required, MinValidity, NameMatches, MinAmount
<1>3. CASE code = "proof_of_funds"
  BY <1>3 DEF TEMPLATES, FIELD_SPECS, Required, MinValidity, NameMatches, MinAmount
<1> QED
  BY <1>1, <1>2, <1>3 DEF TEMPLATES

\* In every template, dates and names are read from fields of their kind.
LEMMA FieldsOfRules ==
  ASSUME NEW c \in CaseType, NEW code \in DOMAIN TEMPLATES[c],
         NEW type \in TEMPLATES[c][code].types, NEW r \in TEMPLATES[c][code].rules
  PROVE  /\ r.rule = "min_validity_days" => FIELD_SPECS[type][r.field] = "date"
         /\ r.rule = "name_matches_applicant" => FIELD_SPECS[type][r.field] = "text"
<1>1. c \in {"work_permit", "study_permit"}
  BY DEF CaseType, TEMPLATES
<1> QED
  BY <1>1, WorkPermitFields, StudyPermitFields

\* The validity a rule asks for is a number of days.
LEMMA DaysAreNumbers ==
  ASSUME NEW c \in CaseType, NEW code \in DOMAIN TEMPLATES[c],
         NEW r \in TEMPLATES[c][code].rules, r.rule = "min_validity_days"
  PROVE  r.days \in Int
<1>1. CASE c = "work_permit"
  BY <1>1 DEF TEMPLATES, Required, MinValidity, NameMatches, MinAmount
<1>2. CASE c = "study_permit"
  BY <1>2 DEF TEMPLATES, Required, MinValidity, NameMatches, MinAmount
<1> QED
  BY <1>1, <1>2 DEF CaseType, TEMPLATES

\* A value that a rule reads has the format of its field.
LEMMA ValuesHaveFormat ==
  ASSUME NEW ex, FieldsMatchSpec(ex), NEW name, NEW v \in ValuesOf(ex, name)
  PROVE  HasFormat(v, FIELD_SPECS[ex.type][name])
BY DEF FieldsMatchSpec, ValuesOf, MatchesSpec

\* ... and is a value.
LEMMA ValuesAreTyped ==
  ASSUME NEW ex \in Answer, NEW name, NEW v \in ValuesOf(ex, name)
  PROVE  v \in Value
<1>1. PICK i \in DOMAIN ex.fields : v = ex.fields[i].value
  BY DEF ValuesOf
<1>2. ex.fields \in Seq(Field)
  BY DEF Answer
<1>3. ex.fields[i] \in Field
  BY <1>2
<1> QED
  BY <1>1, <1>3 DEF Field

\* No rule of any template raises on a validated extraction.
LEMMA ChecksNeverRaise ==
  ASSUME NEW c \in CaseType, NEW code \in DOMAIN TEMPLATES[c],
         NEW ex, FieldsMatchSpec(ex), NEW day, NEW name
  PROVE  CheckRequirement(TEMPLATES[c][code], ex, day, name) # "raised"
<1> SUFFICES ASSUME ex.type \in TEMPLATES[c][code].types,
                    NEW r \in TEMPLATES[c][code].rules, Raises(r, ex)
             PROVE  FALSE
  BY DEF CheckRequirement
<1>1. PICK v \in ValuesOf(ex, r.field) : ~ReadsAsDate(v)
  BY DEF Raises
<1>2. FIELD_SPECS[ex.type][r.field] = "date"
  BY FieldsOfRules DEF Raises
<1> QED
  BY <1>1, <1>2, ValuesHaveFormat DEF HasFormat

\* What fails on some day fails on every later day.
LEMMA ChecksOnlyExpire ==
  ASSUME NEW c \in CaseType, NEW code \in DOMAIN TEMPLATES[c],
         NEW ex \in Answer, FieldsMatchSpec(ex), NEW name,
         NEW day \in Nat, NEW later \in Nat, day <= later,
         CheckRequirement(TEMPLATES[c][code], ex, day, name) = "failed"
  PROVE  CheckRequirement(TEMPLATES[c][code], ex, later, name) = "failed"
<1> DEFINE req == TEMPLATES[c][code]
<1>1. CASE ex.type \notin req.types
  BY <1>1 DEF CheckRequirement
<1>2. CASE ex.type \in req.types
  <2>1. PICK r \in req.rules : Missing(r, ex) \/ Violated(r, ex, day, name)
    BY <1>2 DEF CheckRequirement
  <2>2. Violated(r, ex, day, name) => Violated(r, ex, later, name)
    <3> SUFFICES ASSUME r.rule = "min_validity_days",
                        NEW v \in ValuesOf(ex, r.field), TooEarly(v, day + r.days)
                 PROVE  TooEarly(v, later + r.days)
      BY DEF Violated
    <3>1. v.n \in Int
      BY ValuesAreTyped DEF Value
    <3>2. r.days \in Int
      BY DaysAreNumbers
    <3> QED
      BY <3>1, <3>2 DEF TooEarly
  <2>3. ~\E q \in req.rules : Raises(q, ex)
    BY <1>2, ChecksNeverRaise DEF CheckRequirement
  <2> QED
    BY <1>2, <2>1, <2>2, <2>3 DEF CheckRequirement
<1> QED
  BY <1>1, <1>2

\* A word that is written in a quote is written in the text.
LEMMA QuotedWords ==
  ASSUME NEW text \in Text, NEW quote \in Text, Quotes(text, quote),
         NEW w, DOMAIN w \subseteq Nat, WrittenIn(w, quote), 0 \in DOMAIN w
  PROVE  WrittenIn(w, text)
<1> DEFINE h == Normalized(text)  q == Normalized(quote)
<1>1. /\ Len(text) \in Nat /\ DOMAIN text = 1 .. Len(text)
      /\ Len(quote) \in Nat /\ DOMAIN quote = 1 .. Len(quote)
  BY DEF Text
<1>2. /\ DOMAIN h = 1 .. Len(text) /\ Len(h) = Len(text)
      /\ DOMAIN q = 1 .. Len(quote) /\ Len(q) = Len(quote)
  BY <1>1 DEF Normalized
<1>3. PICK k \in 0 .. Len(h) - Len(q) :
           \A m \in 1 .. Len(q) :
               /\ h[k + m].piece = q[m].piece
               /\ m > 1 => h[k + m].glued = q[m].glued
  BY DEF Quotes, Contains
<1>4. PICK j \in DOMAIN quote :
           \A n \in DOMAIN w :
               /\ j + n \in DOMAIN quote
               /\ quote[j + n].piece = w[n]
               /\ n > 0 => quote[j + n].glued
  BY DEF WrittenIn
<1>5. k + j \in DOMAIN text
  BY <1>1, <1>2, <1>3, <1>4
<1>6. ASSUME NEW n \in DOMAIN w
      PROVE  /\ k + j + n \in DOMAIN text
             /\ text[k + j + n].piece = w[n]
             /\ n > 0 => text[k + j + n].glued
  <2>1. /\ n \in Nat /\ j \in Nat \ {0} /\ k \in Nat
        /\ j + n \in 1 .. Len(q)
        /\ k + (j + n) \in DOMAIN text
        /\ k + j + n = k + (j + n)
    BY <1>1, <1>2, <1>3, <1>4
  <2>2. /\ h[k + (j + n)].piece = q[j + n].piece
        /\ j + n > 1 => h[k + (j + n)].glued = q[j + n].glued
    BY <1>3, <2>1
  <2>3. /\ h[k + (j + n)] = [piece |-> text[k + (j + n)].piece,
                             glued |-> text[k + (j + n)].glued /\ k + (j + n) > 1]
        /\ q[j + n] = [piece |-> quote[j + n].piece, glued |-> quote[j + n].glued /\ j + n > 1]
    BY <1>1, <1>2, <2>1 DEF Normalized
  <2>4. text[k + (j + n)].piece = w[n]
    BY <1>4, <2>2, <2>3
  <2>5. ASSUME n > 0
        PROVE  text[k + (j + n)].glued
    <3>1. j + n > 1 /\ quote[j + n].glued
      BY <1>4, <2>1, <2>5
    <3>2. (text[k + (j + n)].glued /\ k + (j + n) > 1) = (quote[j + n].glued /\ j + n > 1)
      BY <2>2, <2>3, <3>1
    <3> QED
      BY <3>1, <3>2
  <2> QED
    BY <2>1, <2>4, <2>5
<1> QED
  BY <1>5, <1>6 DEF WrittenIn

\* The words of a name are written in each name that matches it.
LEMMA MatchingWords ==
  ASSUME NEW s \in Text, NEW t \in Text, SameName(s, t), NEW i \in WordStarts(t)
  PROVE  WrittenIn(WordAt(t, i), s)
<1> DEFINE w == WordAt(t, i)
<1>1. /\ Len(s) \in Nat /\ DOMAIN s = 1 .. Len(s)
      /\ Len(t) \in Nat /\ DOMAIN t = 1 .. Len(t)
  BY DEF Text
<1>2. CountOf(w, s) = CountOf(w, t)
  BY DEF SameName
<1>3. CountOf(w, t) # 0
  <2> DEFINE S == {x \in WordStarts(t) : WordAt(t, x) = w}
  <2>1. IsFiniteSet(S)
    <3>1. IsFiniteSet(1 .. Len(t))
      BY <1>1, FS_Interval
    <3> QED
      BY <1>1, <3>1, FS_Subset DEF WordStarts
  <2>2. i \in S
    OBVIOUS
  <2> QED
    BY <2>1, <2>2, FS_EmptySet DEF CountOf
<1>4. PICK j \in WordStarts(s) : WordAt(s, j) = w
  <2> DEFINE S == {x \in WordStarts(s) : WordAt(s, x) = w}
  <2>1. S # {}
    BY <1>2, <1>3, FS_EmptySet DEF CountOf
  <2> QED
    BY <2>1
<1>5. j \in DOMAIN s
  BY DEF WordStarts
<1>6. ASSUME NEW n \in DOMAIN w
      PROVE  j + n \in DOMAIN s /\ s[j + n].piece = w[n] /\ (n > 0 => s[j + n].glued)
  <2>1. n \in DOMAIN WordAt(s, j) /\ w[n] = WordAt(s, j)[n]
    BY <1>4
  <2>2. /\ n \in 0 .. Len(s) - j
        /\ \A k \in 1 .. n : s[j + k].glued
        /\ w[n] = s[j + n].piece
    BY <2>1 DEF WordAt
  <2>3. j + n \in DOMAIN s
    BY <1>1, <1>5, <2>2
  <2>4. n > 0 => n \in 1 .. n
    BY <2>2
  <2> QED
    BY <2>2, <2>3, <2>4
<1> QED
  BY <1>5, <1>6 DEF WrittenIn

\* The words of the applicant's name are written in a document that passes.
LEMMA PassingNames ==
  ASSUME NEW c \in CaseType, NEW code \in DOMAIN TEMPLATES[c],
         NEW ex \in Answer, NEW text \in Text, Valid(ex, text),
         NEW name \in Text, NEW day,
         CheckRequirement(TEMPLATES[c][code], ex, day, name) = "passed",
         NEW r \in TEMPLATES[c][code].rules, r.rule = "name_matches_applicant",
         NEW i \in WordStarts(name)
  PROVE  WrittenIn(WordAt(name, i), text)
<1>1. /\ ex.type \in TEMPLATES[c][code].types
      /\ ~Missing(r, ex) /\ ~Violated(r, ex, day, name)
  BY DEF CheckRequirement
<1>2. PICK x \in DOMAIN ex.fields :
           ex.fields[x].name = r.field /\ SameName(ex.fields[x].value.text, name)
  BY <1>1 DEF Missing, Violated, ValuesOf
<1> DEFINE f == ex.fields[x]
<1>3. FIELD_SPECS[ex.type][f.name] = "text" /\ f.name \in DOMAIN FIELD_SPECS[ex.type]
  BY <1>1, <1>2, FieldsOfRules DEF Valid, FieldsMatchSpec, MatchesSpec
<1>4. Quotes(text, f.evidence) /\ Quotes(f.evidence, f.value.text)
  BY <1>3 DEF Valid, GroundedInSource, ValueInEvidence
<1>5. f.evidence \in Text /\ f.value.text \in Text
  <2>1. ex.fields \in Seq(Field)
    BY DEF Answer
  <2>2. f \in Field
    BY <2>1
  <2> QED
    BY <2>2 DEF Field, Value
<1>6. DOMAIN WordAt(name, i) \subseteq Nat /\ 0 \in DOMAIN WordAt(name, i)
  <2>1. Len(name) \in Nat /\ i \in 1 .. Len(name)
    BY DEF Text, WordStarts
  <2> QED
    BY <2>1 DEF WordAt
<1>7. WrittenIn(WordAt(name, i), f.value.text)
  BY <1>2, <1>5, MatchingWords
<1>8. WrittenIn(WordAt(name, i), f.evidence)
  BY <1>4, <1>5, <1>6, <1>7, QuotedWords
<1> QED
  BY <1>4, <1>5, <1>6, <1>8, QuotedWords

\* The results of a check.
LEMMA CheckResults ==
  ASSUME NEW q, NEW ex, NEW day, NEW name
  PROVE  CheckRequirement(q, ex, day, name) \in {"passed", "failed", "raised"}
BY DEF CheckRequirement

\* The inductive invariant.
LEMMA ChecksInductive == Spec => []IndInv
<1>1. Init => IndInv
  BY DocumentChecksAssumption DEF Init, IndInv, TypeOK, ChecksInv
<1>2. IndInv /\ [Next]_vars => IndInv'
  <2> SUFFICES ASSUME IndInv, [Next]_vars
               PROVE  IndInv'
    OBVIOUS
  <2>0. asOf \in Nat
    BY DocumentChecksAssumption DEF IndInv, TypeOK
  <2>1. CASE Extract
    <3>1. /\ caseType' = caseType /\ applicant' = applicant /\ source' = source
          /\ asOf' = asOf /\ verdict' = verdict /\ extraction = NoExtraction
          /\ extraction' \in Answers /\ Valid(extraction', source)
      BY <2>1 DEF Extract, case
    <3>2. TypeOK'
      BY <3>1 DEF IndInv, TypeOK, Valid, FieldsMatchSpec, MatchesSpec
    <3>3. ChecksInv'
      BY <3>1 DEF IndInv, ChecksInv
    <3> QED
      BY <3>2, <3>3 DEF IndInv
  <2>2. CASE \E code \in DOMAIN TEMPLATES[caseType] : Check(code)
    <3> PICK code \in DOMAIN TEMPLATES[caseType] : Check(code)
      BY <2>2
    <3> DEFINE result ==
                 CheckRequirement(TEMPLATES[caseType][code], extraction, asOf, applicant)
    <3>1. /\ caseType' = caseType /\ applicant' = applicant /\ source' = source
          /\ asOf' = asOf /\ extraction' = extraction /\ extraction # NoExtraction
          /\ verdict' = [verdict EXCEPT ![code] = result]
      BY DEF Check, case
    <3>2. result \in {"passed", "failed", "raised"}
      BY CheckResults
    <3>3. TypeOK'
      BY <3>1, <3>2 DEF IndInv, TypeOK
    <3>4. asOf \in 0 .. asOf
      BY <2>0
    <3>5. ChecksInv'
      BY <3>1, <3>4 DEF IndInv, TypeOK, ChecksInv
    <3> QED
      BY <3>3, <3>5 DEF IndInv
  <2>3. CASE NextDay
    <3>1. /\ caseType' = caseType /\ applicant' = applicant /\ source' = source
          /\ extraction' = extraction /\ verdict' = verdict
          /\ asOf < MaxDay /\ asOf' = asOf + 1
      BY <2>3 DEF NextDay, case
    <3>2. 0 .. asOf \subseteq 0 .. asOf' /\ asOf' \in 0 .. MaxDay
      BY <2>0, <3>1, DocumentChecksAssumption
    <3> QED
      BY <3>1, <3>2 DEF IndInv, TypeOK, ChecksInv
  <2>4. CASE UNCHANGED vars
    BY <2>4 DEF vars, case, IndInv, TypeOK, ChecksInv
  <2> QED
    BY <2>1, <2>2, <2>3, <2>4 DEF Next
<1> QED
  BY <1>1, <1>2, PTL DEF Spec

\* Every variable keeps to its type, an extraction to the fields of its type.
THEOREM ExtractionsKeepToSpec == Spec => []TypeOK
<1>1. IndInv => TypeOK
  BY DEF IndInv
<1> QED
  BY <1>1, ChecksInductive, PTL

\* A validated extraction makes no check raise.
THEOREM RulesAreTotal == Spec => []RulesNeverRaise
<1>1. IndInv => RulesNeverRaise
  <2> SUFFICES ASSUME IndInv, NEW code \in DOMAIN verdict, verdict[code] = "raised"
               PROVE  FALSE
    BY DEF RulesNeverRaise
  <2>1. caseType \in CaseType /\ code \in DOMAIN TEMPLATES[caseType]
    BY DEF IndInv, TypeOK
  <2>2. FieldsMatchSpec(extraction)
    BY DEF IndInv, ChecksInv, Valid
  <2>3. PICK day : "raised" = CheckRequirement(TEMPLATES[caseType][code], extraction,
                                               day, applicant)
    BY DEF IndInv, ChecksInv
  <2> QED
    BY <2>1, <2>2, <2>3, ChecksNeverRaise
<1> QED
  BY <1>1, ChecksInductive, PTL

\* A name that passed is written in the document.
THEOREM PassedNamesAreWritten == Spec => []NamesAreInDocument
<1>1. IndInv => NamesAreInDocument
  <2> SUFFICES ASSUME IndInv, NEW code \in DOMAIN verdict, verdict[code] = "passed",
                      NEW r \in TEMPLATES[caseType][code].rules,
                      r.rule = "name_matches_applicant",
                      NEW i \in WordStarts(applicant)
               PROVE  WrittenIn(WordAt(applicant, i), source)
    BY DEF NamesAreInDocument
  <2>1. caseType \in CaseType /\ code \in DOMAIN TEMPLATES[caseType]
    BY DEF IndInv, TypeOK
  <2>2. /\ extraction \in Answer /\ Valid(extraction, source)
        /\ source \in Text /\ applicant \in Text
    BY DocumentChecksAssumption DEF IndInv, TypeOK, ChecksInv
  <2>3. PICK day : "passed" = CheckRequirement(TEMPLATES[caseType][code], extraction,
                                               day, applicant)
    BY DEF IndInv, ChecksInv
  <2> QED
    BY <2>1, <2>2, <2>3, PassingNames
<1> QED
  BY <1>1, ChecksInductive, PTL

\* Time only makes documents fail.
THEOREM FailureIsFinal == Spec => FailedStaysFailed
<1> DEFINE Step == \A code \in DOMAIN verdict :
                       verdict[code] = "failed" => verdict'[code] = "failed"
<1>1. IndInv /\ [Next]_vars => [Step]_vars
  <2> SUFFICES ASSUME IndInv, Next, NEW code \in DOMAIN verdict, verdict[code] = "failed"
               PROVE  verdict'[code] = "failed"
    OBVIOUS
  <2>1. CASE Extract \/ NextDay
    BY <2>1 DEF Extract, NextDay
  <2>2. CASE \E q \in DOMAIN TEMPLATES[caseType] : Check(q)
    <3> PICK q \in DOMAIN TEMPLATES[caseType] : Check(q)
      BY <2>2
    <3>1. /\ verdict \in [DOMAIN TEMPLATES[caseType] ->
                              {"unchecked", "passed", "failed", "raised"}]
          /\ verdict' = [verdict EXCEPT ![q] =
                 CheckRequirement(TEMPLATES[caseType][q], extraction, asOf, applicant)]
          /\ extraction # NoExtraction
      BY DEF IndInv, TypeOK, Check
    <3>2. CASE q # code
      BY <3>1, <3>2
    <3>3. CASE q = code
      <4>1. PICK day \in 0 .. asOf :
                 "failed" = CheckRequirement(TEMPLATES[caseType][code], extraction,
                                             day, applicant)
        BY DEF IndInv, ChecksInv
      <4>2. /\ extraction \in Answer /\ FieldsMatchSpec(extraction)
            /\ caseType \in CaseType /\ code \in DOMAIN TEMPLATES[caseType]
            /\ asOf \in Nat /\ day \in Nat /\ day <= asOf
        BY <3>1, <3>3, DocumentChecksAssumption DEF IndInv, TypeOK, ChecksInv, Valid
      <4>3. CheckRequirement(TEMPLATES[caseType][code], extraction, asOf, applicant) = "failed"
        BY <4>1, <4>2, ChecksOnlyExpire
      <4> QED
        BY <3>1, <3>3, <4>3
    <3> QED
      BY <3>2, <3>3
  <2> QED
    BY <2>1, <2>2 DEF Next
<1> QED
  BY <1>1, ChecksInductive, PTL DEF Spec, FailedStaysFailed

\* No type of document serves two requirements of a case, and a document of a
\* type that a requirement does not accept fails it: what MockProvider assumes of
\* templates and rules.
THEOREM OneRequirementPerType ==
  ASSUME NEW c \in CaseType, NEW code \in DOMAIN TEMPLATES[c], NEW other \in DOMAIN TEMPLATES[c],
         NEW ex, NEW today, NEW name
  PROVE  /\ code # other => TEMPLATES[c][code].types \cap TEMPLATES[c][other].types = {}
         /\ CheckRequirement(TEMPLATES[c][code], ex, today, name) = "passed" =>
                ex.type \in TEMPLATES[c][code].types
<1>1. code # other => TEMPLATES[c][code].types \cap TEMPLATES[c][other].types = {}
  <2>1. CASE c = "work_permit"
    BY <2>1 DEF TEMPLATES
  <2>2. CASE c = "study_permit"
    BY <2>2 DEF TEMPLATES
  <2> QED
    BY <2>1, <2>2 DEF CaseType, TEMPLATES
<1>2. CheckRequirement(TEMPLATES[c][code], ex, today, name) = "passed" =>
         ex.type \in TEMPLATES[c][code].types
  BY DEF CheckRequirement
<1> QED
  BY <1>1, <1>2
=============================================================================
