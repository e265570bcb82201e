---------------------------- MODULE HistoryQuery ----------------------------
(***************************************************************************)
(* GetHistory of internal/storage/boltdb.go: how the history command's     *)
(* options choose contents of the bucket.  The cursor walks the keys in    *)
(* their byte order from a place found with Seek; the times in the keys    *)
(* are then compared as instants.  The answer is right only where the two  *)
(* orders agree.                                                           *)
(*                                                                         *)
(* The ContentType and MaxSize filters, which drop a content as MinSize    *)
(* does, are represented by MinSize.                                       *)
(***************************************************************************)
EXTENDS BoltStorage, Sequences

CONSTANTS
    ZeroTime,       \* the zero time.Time: an option that is not set
    MinSizes,       \* values of --min-size (0: not set)
    Limits          \* values of --limit (0: not set)

ASSUME QueryAssumption == MinSizes \subseteq Nat /\ Limits \subseteq Nat

\* A time given as --since or --before: whole seconds, in some zone.
Moment(z) == [sec : 0..(MaxSec + 1), frac : {0}, offset : {z}]

\* config.HistoryOptions as the command fills it, with times in zone z.
HistoryOptions(z) ==
    [reverse : BOOLEAN,
     since   : Moment(z) \cup {ZeroTime},
     before  : Moment(z) \cup {ZeroTime},
     minSize : MinSizes,
     limit   : Limits]
-----------------------------------------------------------------------------
\* The contents d as a cursor walks them with Next, and with Prev.
Ascending(d) ==
    [i \in 1..Cardinality(d) |->
        CHOOSE c \in d : Cardinality(Newer(c, d)) = Cardinality(d) - i]
Descending(d) ==
    [i \in 1..Cardinality(d) |->
        CHOOSE c \in d : Cardinality(Newer(c, d)) = i - 1]

\* A cursor that skips a key equal to the one sought.
SeekBeyond(d, t) == {c \in d : KeyLess(Key(t), Key(c))}

\* The keys from Cursor.Seek(t) on.
Seek(d, t) == {c \in d : ~KeyLess(Key(c), Key(t))}

\* The contents that the loop meets.  In reverse the cursor steps back from
\* what Seek found; a Seek that runs off the end of the bucket finds nothing,
\* and the loop is not entered.
Visited(d, o) ==
    CASE ~o.reverse /\ o.since = ZeroTime  -> d
      [] ~o.reverse /\ o.since # ZeroTime  -> Seek(d, o.since)
      [] o.reverse /\ o.before = ZeroTime  -> d
      [] o.reverse /\ o.before # ZeroTime  ->
            IF Seek(d, o.before) = {} THEN {} ELSE d \ Seek(d, o.before)

\* The filters of the loop's body.
Selected(c, o) ==
    /\ o.since # ZeroTime => ~Before(c, o.since)
    /\ o.before # ZeroTime => ~Before(o.before, c)
    /\ c.len >= o.minSize

Limited(s, n) == IF n > 0 /\ n < Len(s) THEN SubSeq(s, 1, n) ELSE s

\* The cursor's walk with the contents that the filters skip left out.
Walk(d, reverse) == IF reverse THEN Descending(d) ELSE Ascending(d)

GetHistory(d, o) ==
    Limited(Walk({c \in Visited(d, o) : Selected(c, o)}, o.reverse), o.limit)
-----------------------------------------------------------------------------
(***************************************************************************)
(* What the options ask for, in terms of instants only.                    *)
(***************************************************************************)
Earlier(c, d) == {e \in d : Before(e, c)}

InTimeOrder(d, reverse) ==
    [i \in 1..Cardinality(d) |->
        CHOOSE c \in d :
            Cardinality(Earlier(c, d)) = IF reverse THEN Cardinality(d) - i
                                                    ELSE i - 1]

\* --before includes its instant when listing forward and excludes it when
\* listing in reverse, where the walk starts "just before the 'Before' time".
Wanted(d, o) ==
    {c \in d : /\ Selected(c, o)
               /\ o.reverse /\ o.before # ZeroTime => Before(c, o.before)}

Answer(d, o) == Limited(InTimeOrder(Wanted(d, o), o.reverse), o.limit)

\* A question the code is meant to answer as asked.  Left out are a reverse
\* listing with --before and nothing at or after that time, which lists
\* nothing, and a forward listing that the limit cuts short, which keeps the
\* oldest contents where cli/cmd/history.go promises "the last 5 items".
Answerable(d, o) ==
    /\ o.reverse /\ o.before # ZeroTime => Seek(d, o.before) # {}
    /\ ~o.reverse /\ o.limit > 0 => Cardinality(Wanted(d, o)) <= o.limit

\* Whatever saves, flushes and reopenings made of the file, a history query
\* with times in the device's own zone returns exactly the contents its
\* options ask for, in time order, a reverse listing cut after the newest.
HistoryAnswers ==
    owner = "history" =>
        \A z \in Offsets : \A o \in HistoryOptions(z) :
            Answerable(db, o) => GetHistory(db, o) = Answer(db, o)

=============================================================================
