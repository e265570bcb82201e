---------------------------- MODULE ContentKeys ----------------------------
(***************************************************************************)
(* Clipboard contents as the storage layer sees them, and the keys under   *)
(* which internal/storage/boltdb.go files them.                            *)
(*                                                                         *)
(* A content is its creation instant, the zone offset that was in force    *)
(* when time.Now() was taken, and the length of its Data.  An instant is a *)
(* whole second and a fraction; fraction 1 stands for every non-zero one   *)
(* (RFC3339Nano drops a zero fraction from the text altogether).           *)
(*                                                                         *)
(* The key is Created.Format(time.RFC3339Nano): local wall-clock text      *)
(* followed by the offset.  bbolt orders keys by their bytes, so what      *)
(* matters of the text is how it compares, and that is what Key keeps.     *)
(***************************************************************************)
EXTENDS Integers

CONSTANTS
    MaxSec,      \* bound: instants lie in the seconds 0..MaxSec
    Offsets,     \* zone offsets the device can be in, in seconds (0 is UTC)
    DataLens,    \* lengths of Data that contents can have
    Overhead,    \* bytes of JSON around Data in an encoded content
    KeyLen       \* bytes of a key

ASSUME ContentAssumption ==
    /\ MaxSec \in Nat
    /\ Offsets \subseteq Int
    /\ DataLens \subseteq Nat
    /\ Overhead \in Nat
    /\ KeyLen \in Nat

Instant == [sec : 0..MaxSec, frac : {0, 1}]

Content == [sec : 0..MaxSec, frac : {0, 1}, offset : Offsets, len : DataLens]

\* Instants, and contents by creation instant, in the order of real time.
Before(a, b) ==
    \/ a.sec < b.sec
    \/ a.sec = b.sec /\ a.frac < b.frac

\* The byte that follows the seconds: '+' (1) or '-' (2) of a numeric offset,
\* '.' (3) of a fraction, or the 'Z' (4) of UTC, in their ASCII order.
Mark(c) ==
    CASE c.frac # 0  -> 3
      [] c.offset > 0 /\ c.frac = 0 -> 1
      [] c.offset < 0 /\ c.frac = 0 -> 2
      [] c.offset = 0 /\ c.frac = 0 -> 4

\* The offset's text among texts of equal prefix: +hh:mm before -hh:mm before
\* Z, each sign by magnitude.
Sign(z) == IF z > 0 THEN 1 ELSE IF z < 0 THEN 2 ELSE 3
Magnitude(z) == IF z < 0 THEN -z ELSE z

Key(c) == <<c.sec + c.offset, Mark(c), Sign(c.offset), Magnitude(c.offset)>>

\* bytes.Compare on the two key texts.
KeyLess(j, k) ==
    \/ j[1] < k[1]
    \/ j[1] = k[1] /\ j[2] < k[2]
    \/ j[1] = k[1] /\ j[2] = k[2] /\ j[3] < k[3]
    \/ j[1] = k[1] /\ j[2] = k[2] /\ j[3] = k[3] /\ j[4] < k[4]

\* len(json.Marshal(content)): Data is a []byte, which JSON carries in base64.
EncodedLen(c) == Overhead + 4 * ((c.len + 2) \div 3)

=============================================================================
