------------------------------ MODULE RefCode ------------------------------
(***************************************************************************)
(* How the reference code gets into a file (the worker) and out of it      *)
(* again (ExtractRefCode).  Of a file only what the three methods of the   *)
(* extraction meet first is kept.  Any eight characters of A-Z and 2-7 are *)
(* a code to them, a word of the invoice's text as well.                   *)
(***************************************************************************)
EXTENDS Store

(* qr: the QR code, if the file decodes as an image; text: what follows    *)
(* the first "REF:" in the extracted text; word: the first word of eight   *)
(* such characters in it; bytes: what follows the first "REF:" in the raw  *)
(* bytes.                                                                  *)
MaybeCode == Code \cup {None}
Content == [qr : MaybeCode, text : MaybeCode, word : MaybeCode, bytes : MaybeCode]

(* Of two places to look for a code the second counts if the first has none. *)
First(c, d) == IF c # None THEN c ELSE d

ExtractRefFromText(f) == First(f.text, f.word)

ExtractRefCode(f) == First(f.qr, First(ExtractRefFromText(f), f.bytes))

-----------------------------------------------------------------------------
(* stampPDF: the extraction may see the footer, on a page before or after   *)
(* the text that was there, or may not; old comments may be lost.          *)
Stamped(f, c) ==
    [qr : {None}, text : {f.text, c}, word : {f.word}, bytes : {f.bytes, None}]

(* Mutant: only a file whose stamping failed gets the comment.             *)
StampOrComment(f, c) ==
    Stamped(f, c) \cup {[f EXCEPT !.bytes = First(@, c)]}

(* What Work uploads: the stamped file, or the raw one if that failed, and *)
(* in both cases a comment "REF: c" at the end.                            *)
Stamp(f, c) ==
    { [g EXCEPT !.bytes = First(@, c)] : g \in Stamped(f, c) \cup {f} }

(* The codes that may be found in what is issued under c.                  *)
FoundCodes ==
    [c \in Code |-> { ExtractRefCode(g) : g \in UNION { Stamp(f, c) : f \in Content } }]
=============================================================================
