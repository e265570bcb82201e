----------------------------- MODULE MCMonitor -----------------------------
(* Instance of Monitor for TLC: a word, the same word with a space in       *)
(* front, a note, an HTML fragment, and a text over the size limit.         *)
EXTENDS Monitor

SmallItems == {"word", " word", "html"}
AllItems == SmallItems \cup {"big"}
NoteItems == {"word", "note", "html"}

Trimmed(items) == [i \in items |-> IF i = " word" THEN "word" ELSE i]
SmallTrim == Trimmed(SmallItems)
AllTrim == Trimmed(AllItems)
NoteTrim == Trimmed(NoteItems)

\* The text offered beside the HTML fragment.
HtmlSpaced == [i \in {"html"} |-> " word"]
HtmlPlain == [i \in {"html"} |-> "word"]

\* hashContent tells these items apart.
SmallHash == [i \in SmallItems |-> i]
AllHash == [i \in AllItems |-> i]
NoteHash == [i \in NoteItems |-> i]

=============================================================================
