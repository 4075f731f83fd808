----------------------------- MODULE TemplateLint -----------------------------
(***************************************************************************)
(* A WhatsApp template while it is being written: the rules that the       *)
(* browser checks on every change, the ones that the server checks before  *)
(* it submits to Meta, and what a send makes of the body and its numbered  *)
(* placeholders.                                                           *)
(*                                                                         *)
(* A body is a sequence of marks: a word, a link, a space, a tab, a new    *)
(* line, or a placeholder, whose number may be written with a zero in      *)
(* front.  Advice that blocks nothing (warnings) is left out.              *)
(***************************************************************************)
EXTENDS Naturals, Sequences, FiniteSets

CONSTANTS MaxVariables,  \* MAX_VARIABLES
          MaxBodyLen,    \* MAX_BODY_LEN, in marks
          MaxRun,        \* spaces, or new lines, that may follow each other (4)
          MaxButtons,    \* MAX_BUTTONS_TOTAL
          MaxUrlButtons, MaxPhoneButtons, MaxCopyButtons,
          Slots,         \* bound: numbers that the author writes
          MaxMarks, MaxPressed  \* bounds: marks, buttons

VARIABLES body, category, header, footer, buttons

lintVars == <<body, category, header, footer, buttons>>

Plain == [mark : {"word", "link", "space", "tab", "line"}, slot : {0}, padded : {FALSE}]
Placeholder == [mark : {"var"}, slot : Slots, padded : BOOLEAN]
IsVariable(x) == x.mark = "var"
IsBlank(x) == x.mark \in {"space", "tab", "line"}

\* What an author may give, in the form or to the API, good and bad.
Categories == {"UTILITY", "AUTHENTICATION"}  \* marketing is checked as utility
Headers == {"NONE", "TEXT blank", "TEXT long", "TEXT variable", "TEXT", "IMAGE missing", "IMAGE"}
Footers == {"none", "plain", "long", "variable"}
Buttons ==
  {[type |-> "QUICK_REPLY", fault |-> f] : f \in {"none", "text blank", "text long"}} \union
  {[type |-> "URL", fault |-> f] : f \in {"none", "text blank", "no url", "not https", "variables"}} \union
  {[type |-> "PHONE_NUMBER", fault |-> f] : f \in {"none", "no phone", "not international"}} \union
  {[type |-> "COPY_CODE", fault |-> "none"]}

LintTypeOK ==
  /\ body \in Seq(Plain \union Placeholder) /\ Len(body) <= MaxMarks
  /\ category \in Categories /\ header \in Headers /\ footer \in Footers
  /\ buttons \in Seq(Buttons) /\ Len(buttons) <= MaxPressed

------------------------------------------------------------------------------
(* The rules on the body that both sides state alike *)

Variables(b) == {i \in DOMAIN b : IsVariable(b[i])}
Written(b) == {i \in DOMAIN b : ~IsBlank(b[i])}
First(S) == CHOOSE i \in S : \A j \in S : i <= j
LastMark(S) == CHOOSE i \in S : \A j \in S : j <= i

\* Some run of one mark is longer than allowed.
RunOf(b, mark) ==
  \E i \in 1..Len(b) - MaxRun : \A j \in i..i + MaxRun : b[j].mark = mark

Placing(b) ==
  LET text == Written(b)
  IN  IF Variables(b) = {} THEN {}
      ELSE {c \in {"VAR_AT_START"} : IsVariable(b[First(text)])} \union
           {c \in {"VAR_AT_END"} : IsVariable(b[LastMark(text)])} \union
           {c \in {"VAR_ADJACENT"} :
              \E i, j \in Variables(b) : i < j /\ \A n \in i + 1..j - 1 : IsBlank(b[n])}

Format(b) ==
  {c \in {"BODY_TAB"} : \E i \in DOMAIN b : b[i].mark = "tab"} \union
  {c \in {"BODY_SPACE_RUN"} : RunOf(b, "space")} \union
  {c \in {"BODY_NEWLINE_RUN"} : RunOf(b, "line")}

Length(b) ==
  IF Written(b) = {} THEN {"BODY_EMPTY"}
  ELSE IF Len(b) > MaxBodyLen THEN {"BODY_TOO_LONG"} ELSE {}

HeaderErrors(h) ==
  CASE h = "TEXT blank" -> {"HEADER_TEXT_REQUIRED"}
    [] h = "TEXT long" -> {"HEADER_TOO_LONG"}
    [] h = "TEXT variable" -> {"HEADER_HAS_VARIABLE"}
    [] h = "IMAGE missing" -> {"HEADER_IMAGE_REQUIRED"}
    [] OTHER -> {}

FooterErrors(f) ==
  CASE f = "long" -> {"FOOTER_TOO_LONG"} [] f = "variable" -> {"FOOTER_HAS_VARIABLE"}
    [] OTHER -> {}

Authentication(c, b) ==
  {e \in {"AUTH_NO_URL"} : c = "AUTHENTICATION" /\ \E i \in DOMAIN b : b[i].mark = "link"}

FaultCode(x) ==
  CASE x.fault = "none" -> {}
    [] x.fault = "text blank" -> {"BUTTON_TEXT_REQUIRED"}
    [] x.fault = "text long" -> {"BUTTON_TEXT_TOO_LONG"}
    [] x.fault = "no url" -> {"BUTTON_URL_REQUIRED"}
    [] x.fault = "not https" -> {"BUTTON_URL_NOT_HTTPS"}
    [] x.fault = "variables" -> {"BUTTON_URL_VARS"}
    [] x.fault = "no phone" -> {"BUTTON_PHONE_REQUIRED"}
    [] x.fault = "not international" -> {"BUTTON_PHONE_FORMAT"}

\* Mutant: the kinds of buttons are not counted.
TotalOnly(s) ==
  UNION {FaultCode(s[i]) : i \in DOMAIN s} \union
  {c \in {"BUTTONS_TOO_MANY"} : Len(s) > MaxButtons}

\* _lint_buttons
ButtonErrors(s) ==
  LET count(t) == Cardinality({i \in DOMAIN s : s[i].type = t})
  IN  UNION {FaultCode(s[i]) : i \in DOMAIN s} \union
      {c \in {"BUTTONS_TOO_MANY"} : Len(s) > MaxButtons} \union
      {c \in {"BUTTONS_URL_TOO_MANY"} : count("URL") > MaxUrlButtons} \union
      {c \in {"BUTTONS_PHONE_TOO_MANY"} : count("PHONE_NUMBER") > MaxPhoneButtons} \union
      {c \in {"BUTTONS_COPY_TOO_MANY"} : count("COPY_CODE") > MaxCopyButtons}

\* lintButtons of the browser
PressedErrors(s) ==
  LET of(t) == SelectSeq(s, LAMBDA x : x.type = t)
  IN  UNION {FaultCode(s[i]) : i \in DOMAIN s} \union
      {c \in {"BUTTONS_TOO_MANY"} : Len(s) > MaxButtons} \union
      {c \in {"BUTTONS_URL_TOO_MANY"} : Len(of("URL")) > MaxUrlButtons} \union
      {c \in {"BUTTONS_PHONE_TOO_MANY"} : Len(of("PHONE_NUMBER")) > MaxPhoneButtons} \union
      {c \in {"BUTTONS_COPY_TOO_MANY"} : Len(of("COPY_CODE")) > MaxCopyButtons}

------------------------------------------------------------------------------
(* The numbers: the server tells placeholders apart by how they are written, *)
(* the browser by their value.                                               *)

Numbers(b) == {b[i].slot : i \in Variables(b)}
Spellings(b) == {b[i] : i \in Variables(b)}

\* Mutant: a gap in the numbers goes unnoticed.
CountedOnly(b) ==
  {c \in {"VAR_TOO_MANY"} : Cardinality(Spellings(b)) > MaxVariables}

\* extract_variables and _lint_variables
NumberErrors(b) ==
  {c \in {"VAR_TOO_MANY"} : Cardinality(Spellings(b)) > MaxVariables} \union
  {c \in {"VAR_NON_SEQUENTIAL"} :
     \/ Numbers(b) # 1..Cardinality(Spellings(b))
     \/ Cardinality(Numbers(b)) # Cardinality(Spellings(b))}

\* extractVariables and lintVariables
NumbersInBrowser(b) ==
  {c \in {"VAR_TOO_MANY"} : Cardinality(Numbers(b)) > MaxVariables} \union
  {c \in {"VAR_NON_SEQUENTIAL"} : Numbers(b) # 1..Cardinality(Numbers(b))}

\* lint_template: only errors block the submit.
ServerErrors ==
  Length(body) \union NumberErrors(body) \union Placing(body) \union Format(body) \union
  HeaderErrors(header) \union FooterErrors(footer) \union ButtonErrors(buttons) \union
  Authentication(category, body)

\* lintTemplate
BrowserErrors ==
  Length(body) \union NumbersInBrowser(body) \union Placing(body) \union
  (IF Written(body) = {} THEN {} ELSE Format(body)) \union
  HeaderErrors(header) \union FooterErrors(footer) \union PressedErrors(buttons) \union
  Authentication(category, body)

------------------------------------------------------------------------------
(* Submit and send.  The value of slot n is n itself: what its source gives. *)

\* build_submit_components: one example for each placeholder.
Examples(b) == [i \in 1..Cardinality(Spellings(b)) |-> i]

\* Mutant: the values follow the order in which the placeholders are met.
ParamsAsMet(b) ==
  LET met == SelectSeq(b, IsVariable)
      new == {i \in DOMAIN met : \A j \in 1..i - 1 : met[j].slot # met[i].slot}
  IN  [n \in 1..Cardinality(new) |->
         met[CHOOSE i \in new : Cardinality({j \in new : j < i}) = n - 1].slot]

\* resolve_body_params: positions 1 to the highest number.
BodyParams(b) == [n \in 1..IF Numbers(b) = {} THEN 0 ELSE LastMark(Numbers(b)) |-> n]

\* render_body_preview, and Meta: the value at each placeholder, 0 for none.
Shown(b, params) ==
  [i \in Variables(b) |-> IF b[i].slot \in DOMAIN params THEN params[b[i].slot] ELSE 0]

------------------------------------------------------------------------------
(* The author *)

LintInit ==
  /\ body = <<>> /\ category = "UTILITY" /\ header = "NONE" /\ footer = "none" /\ buttons = <<>>

\* Bound: the checks look at one part at a time, and so one part is filled in at a time,
\* the header, the footer and the buttons around the shortest body.
OneWord == <<[mark |-> "word", slot |-> 0, padded |-> FALSE]>>

Type ==
  /\ Len(body) < MaxMarks /\ header = "NONE" /\ footer = "none" /\ buttons = <<>>
  /\ \E x \in Plain \union Placeholder : body' = Append(body, x)
  /\ UNCHANGED <<category, header, footer, buttons>>

ChooseCategory ==
  /\ body = <<>>
  /\ category' \in Categories
  /\ UNCHANGED <<body, header, footer, buttons>>

ChooseHeader ==
  /\ body = OneWord /\ buttons = <<>>
  /\ header' \in Headers /\ footer' \in Footers
  /\ UNCHANGED <<body, category, buttons>>

AddButton ==
  /\ body = OneWord /\ header = "NONE" /\ footer = "none" /\ Len(buttons) < MaxPressed
  /\ \E x \in Buttons : buttons' = Append(buttons, x)
  /\ UNCHANGED <<body, category, header, footer>>

LintNext == Type \/ ChooseCategory \/ ChooseHeader \/ AddButton

LintSpec == LintInit /\ [][LintNext]_lintVars

------------------------------------------------------------------------------
(* Properties *)

\* The browser lets a template through exactly if the server does, and for the same
\* reasons unless the body is blank, as long as no number is written with a zero in front.
LintersAgree ==
  (\A i \in Variables(body) : ~body[i].padded) =>
    /\ (BrowserErrors = {}) = (ServerErrors = {})
    /\ Written(body) # {} => BrowserErrors = ServerErrors

\* A template that the server submits has one example and one value for each of its
\* placeholders, and each placeholder shows the value of its own number, in the message
\* and in the copy that the inbox keeps.
SentAsWritten ==
  ServerErrors = {} =>
    /\ Len(BodyParams(body)) = Len(Examples(body))
    /\ Len(BodyParams(body)) <= MaxVariables
    /\ \A i \in Variables(body) : Shown(body, BodyParams(body))[i] = body[i].slot

\* Both, for every template on the way.
LintSafe == LintTypeOK /\ LintersAgree /\ SentAsWritten

\* What the browser blocks is what the server blocks.
AlignedWithServer == (BrowserErrors = {}) = (ServerErrors = {})

==============================================================================
