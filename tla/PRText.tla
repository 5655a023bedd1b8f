------------------------------- MODULE PRText -------------------------------
(***************************************************************************)
(* The title and the description of a job's pull request, as turns and     *)
(* people rewrite them.  A turn reads both, has the agent write new ones,  *)
(* and puts them on the forge in up to three calls; at its end it reads    *)
(* the description again and restores the footer if that is gone.  Between *)
(* any two calls somebody may edit the description.                        *)
(*                                                                         *)
(* Abstraction: a description is a sequence of lines, and a line is one of *)
(* a few kinds, told apart as the code tells them apart.  The mode with    *)
(* worktrees runs a copy of the same code.                                 *)
(***************************************************************************)
EXTENDS Naturals, Sequences, SequencesExt, FiniteSets

CONSTANTS
  MaxLines,     \* bound: the lines of the first description
  MaxUpdates,   \* bound: turns
  MaxEdits      \* bound: edits by people

ASSUME PRTextAssumption == MaxLines \in Nat /\ MaxUpdates \in Nat /\ MaxEdits \in Nat

VARIABLES
  title, body,     \* the pull request on the forge
  upkeep,          \* what the turn is at, with what it has read and generated
  updatesLeft, editsLeft,
  settled          \* history: the last turn ended well and nobody edited since

textVars == <<title, body, upkeep, updatesLeft, editsLeft, settled>>

\* "footer" is a line of the form the code writes; "oldFooter" one it would take
\* out, but not accept; "claudeFooter" the one the CLI adds by itself.
Words == {"words", "overflow"}
Generated == {"footer", "oldFooter"}
Lines == Words \cup Generated \cup {"claudeFooter", "blank", "rule"}

Titles == {"short", "other", "truncated"}

Idle == [pc |-> "idle", current |-> <<>>, read |-> <<>>, title |-> "short", body |-> <<>>]

PRTextTypeOK ==
  /\ title \in Titles /\ body \in Seq(Lines)
  /\ upkeep.pc \in {"idle", "generate", "readAgain", "overflow", "title", "body",
                    "footerRead", "footerWrite"}
  /\ upkeep.current \in Seq(Lines) /\ upkeep.read \in Seq(Lines) /\ upkeep.body \in Seq(Lines)
  /\ upkeep.title \in Titles \cup {"long"}
  /\ updatesLeft \in 0 .. MaxUpdates /\ editsLeft \in 0 .. MaxEdits /\ settled \in BOOLEAN

\* A job may take over a pull request somebody else described.
PRTextInit ==
  /\ title = "short"
  /\ body \in UNION {[1 .. n -> Lines \ {"overflow"}] : n \in 0 .. MaxLines}
  /\ upkeep = Idle
  /\ updatesLeft = MaxUpdates /\ editsLeft = MaxEdits
  /\ settled = FALSE

-----------------------------------------------------------------------------
(* The footer.                                                              *)

\* footerPattern: a rule, blank lines at most, and the line itself.
HasFooter(d) ==
  \E i, k \in DOMAIN d :
    /\ i < k /\ d[i] = "rule" /\ d[k] = "footer"
    /\ \A b \in i + 1 .. k - 1 : d[b] = "blank"

\* Whether what comes after the rule is a footer.  The code counts from the number
\* of lines kept so far, not from the line it is at.
IsFooterSeparator(d, kept) ==
  \E k \in kept + 2 .. Len(d) :
    d[k] \in Generated /\ \A b \in kept + 2 .. k - 1 : d[b] = "blank"

\* Mutant: only the line the code writes counts as a footer.
CleanLineStrict(d, acc, line) ==
  IF line = "footer" THEN [acc EXCEPT !.inFooterSection = TRUE]
  ELSE [acc EXCEPT !.kept = Append(@, line)]

CleanLine(d, acc, line) ==
  IF line \in Generated \cup {"claudeFooter"} THEN [acc EXCEPT !.inFooterSection = TRUE]
  ELSE IF \/ line = "rule" /\ (acc.inFooterSection \/ IsFooterSeparator(d, Len(acc.kept)))
          \/ line = "blank" /\ acc.inFooterSection
    THEN acc
    ELSE [acc EXCEPT !.kept = Append(@, line)]

Cleaned(d) ==
  LET acc[n \in 0 .. Len(d)] ==
        IF n = 0 THEN [kept |-> <<>>, inFooterSection |-> FALSE]
        ELSE CleanLine(d, acc[n - 1], d[n])
  IN acc[Len(d)].kept

WithoutTrailingBlanks(d) ==
  SubSeq(d, 1, CHOOSE n \in 0 .. Len(d) :
                 /\ n > 0 => d[n] # "blank"
                 /\ \A i \in n + 1 .. Len(d) : d[i] = "blank")

\* Mutant: the line without its rule.
WithFooterBare(d) == Append(d, "footer")

WithFooter(d) ==
  d \o IF d = <<>> THEN <<"rule", "footer">>
       ELSE IF Last(d) = "rule" THEN <<"footer">>
       ELSE <<"blank", "rule", "footer">>

ValidateAndRestorePRDescriptionFooter(d) ==
  IF HasFooter(d) THEN d ELSE WithFooter(WithoutTrailingBlanks(Cleaned(d)))

-----------------------------------------------------------------------------
(* A turn's upkeep.                                                         *)

UpkeepAt(pc) == upkeep.pc = pc
Goto(pc) == upkeep' = [upkeep EXCEPT !.pc = pc]

\* An error of any call ends the turn.
GiveUp == upkeep' = Idle

\* GetPRTitle, GetPRDescription.
StartUpdate ==
  /\ UpkeepAt("idle") /\ updatesLeft > 0
  /\ updatesLeft' = updatesLeft - 1
  /\ upkeep' = [upkeep EXCEPT !.pc = "generate", !.current = body]
  /\ settled' = FALSE
  /\ UNCHANGED <<title, body, editsLeft>>

\* A turn that committed nothing only looks at the footer.
StartValidation ==
  /\ UpkeepAt("idle") /\ updatesLeft > 0
  /\ updatesLeft' = updatesLeft - 1
  /\ Goto("footerRead")
  /\ settled' = FALSE
  /\ UNCHANGED <<title, body, editsLeft>>

\* The agent writes a title and a description; the footer is put under the latter.
GenerateTexts ==
  /\ UpkeepAt("generate")
  /\ \E t \in {"short", "other", "long"}, text \in {<<"words">>, <<"words", "rule", "words">>} :
       upkeep' = [upkeep EXCEPT !.title = t, !.body = text \o <<"blank", "rule", "footer">>,
                                !.pc = IF t # title THEN "readAgain" ELSE "body"]
  /\ UNCHANGED <<title, body, updatesLeft, editsLeft, settled>>

\* UpdatePRTitle, if the title changed: it reads the description for the overflow of a title that is too
\* long, and takes it as empty if that fails.
ReadForOverflow ==
  /\ UpkeepAt("readAgain")
  /\ \E read \in {body, <<>>} :
       upkeep' = [upkeep EXCEPT !.pc = IF upkeep.title = "long" THEN "overflow" ELSE "title",
                                !.read = IF upkeep.title = "long" THEN read ELSE @]
  /\ UNCHANGED <<title, body, updatesLeft, editsLeft, settled>>

\* ValidateAndTruncatePRTitle.
DescriptionPrefix == <<"overflow", "blank", "rule", "blank">>

PrependOverflow ==
  /\ UpkeepAt("overflow")
  /\ \/ body' = DescriptionPrefix \o upkeep.read /\ Goto("title")
     \/ UNCHANGED body /\ GiveUp
  /\ UNCHANGED <<title, updatesLeft, editsLeft, settled>>

\* Mutant: the title is sent as it was generated.
UpdateTitleUncut ==
  /\ UpkeepAt("title")
  /\ \/ title' = upkeep.title /\ Goto("body")
     \/ UNCHANGED title /\ GiveUp
  /\ UNCHANGED <<body, updatesLeft, editsLeft, settled>>

UpdateTitle ==
  /\ UpkeepAt("title")
  /\ \/ title' = (IF upkeep.title = "long" THEN "truncated" ELSE upkeep.title) /\ Goto("body")
     \/ UNCHANGED title /\ GiveUp
  /\ UNCHANGED <<body, updatesLeft, editsLeft, settled>>

\* The generated description is compared with the one read at the start.
UpdatePRDescription ==
  /\ UpkeepAt("body")
  /\ \/ body' = (IF upkeep.body = upkeep.current THEN body ELSE upkeep.body)
        /\ Goto("footerRead")
     \/ UNCHANGED body /\ GiveUp
  /\ UNCHANGED <<title, updatesLeft, editsLeft, settled>>

ReadForFooter ==
  /\ UpkeepAt("footerRead")
  /\ \/ upkeep' = [upkeep EXCEPT !.pc = "footerWrite", !.read = body]
     \/ GiveUp
  /\ UNCHANGED <<title, body, updatesLeft, editsLeft, settled>>

\* Without anything to restore nothing is written.
RestoreFooter ==
  /\ UpkeepAt("footerWrite")
  /\ LET d == ValidateAndRestorePRDescriptionFooter(upkeep.read)
     IN \/ d # upkeep.read /\ body' = d /\ settled' = TRUE
        \/ d = upkeep.read /\ UNCHANGED body /\ settled' = (body = d)
        \/ UNCHANGED <<body, settled>>
  /\ GiveUp
  /\ UNCHANGED <<title, updatesLeft, editsLeft>>

\* People write below what is there, or take lines out.
EditDescription ==
  /\ editsLeft > 0
  /\ editsLeft' = editsLeft - 1
  /\ body' \in {Append(body, "words")} \cup {RemoveAt(body, i) : i \in DOMAIN body}
  /\ settled' = FALSE
  /\ UNCHANGED <<title, upkeep, updatesLeft>>

PRTextNext ==
  \/ StartUpdate \/ StartValidation \/ GenerateTexts \/ ReadForOverflow \/ PrependOverflow
  \/ UpdateTitle \/ UpdatePRDescription \/ ReadForFooter \/ RestoreFooter \/ EditDescription

PRTextSpec == PRTextInit /\ [][PRTextNext]_textVars

-----------------------------------------------------------------------------
(* Properties.                                                              *)

\* After a turn that ended well, and until somebody edits, the description has a
\* footer the next turn accepts: the turns do not keep rewriting it.
FooterStands == settled => HasFooter(body)

\* The words of a description, in order: neither footers nor rules and blank lines.
WordsOf(d) ==
  LET words[n \in 0 .. Len(d)] ==
        IF n = 0 THEN <<>>
        ELSE IF d[n] \in Words THEN Append(words[n - 1], d[n]) ELSE words[n - 1]
  IN words[Len(d)]

\* The footer that is put back is the only one, and the last line (usecases/git.go:702:
\* "Remove any existing footer lines to avoid duplicates"), and all the words stay, in
\* their order.
OneFooterRestored ==
  [][RestoreFooter /\ body' # body =>
       /\ Last(body') = "footer"
       /\ \A i \in 1 .. Len(body') - 1 : body'[i] \notin Generated \cup {"claudeFooter"}
       /\ WordsOf(body') = WordsOf(upkeep.read)]_textVars

\* A title that was cut short continues in the description (clients/git.go:864: "If
\* title was truncated, prepend overflow to description").
OverflowIsKept ==
  settled /\ title = "truncated" => \E i \in DOMAIN body : body[i] = "overflow"
=============================================================================
