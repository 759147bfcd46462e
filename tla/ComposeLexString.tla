--------------------------- MODULE ComposeLexString -------------------------
(***************************************************************************)
(* The string-literal branch of lex() (parser.c), one loop iteration per  *)
(* step, on the bytes that follow the opening quote, and then what the   *)
(* rhs label does with the token: snprintf(production.string, 256, "%s", *)
(* val.string) and the empty/too-long checks.  Bytes are numbers; the    *)
(* input is any short sequence over a small alphabet of bytes.          *)
(***************************************************************************)
EXTENDS Naturals, Sequences, SequencesExt

CONSTANTS
    Alphabet,       \* bytes the input is drawn from
    MaxInput,       \* bound: input length
    Skipped         \* stored when rhs keeps no string

BSL == 92    \* '\\'
DQ  == 34    \* '"'
NL  == 10    \* '\n'
NULByte == 0

VARIABLES
    input,      \* the bytes after the opening quote (fixed)
    pos,        \* scanner position in input (1-based)
    buf,        \* s->buf up to buf_pos
    pc,         \* "loop", "end", "rhs", "done"
    tok,        \* "none", "STRING" or "ERROR"
    stored      \* production.string after rhs, or Skipped

vars == <<input, pos, buf, pc, tok, stored>>

Peek == IF pos <= Len(input) THEN input[pos] ELSE NULByte
AtEof == pos > Len(input)

OctDigits == 48..55
HexDigits == 48..57 \cup 97..102 \cup 65..70
HexVal(c) == IF c \in 48..57 THEN c - 48 ELSE IF c \in 97..102 THEN c - 87 ELSE c - 55

(* The length of the run of bytes of D at the start of s, at most m. *)
RunLen(s, D, m) ==
    LET ok(n) == n <= Len(s) /\ \A i \in 1..n : s[i] \in D
    IN CHOOSE n \in 0..m : ok(n) /\ ~(n < m /\ ok(n + 1))

(* The value of digits in base b, as a uint8_t (% 256). *)
DigitsVal(s, b) ==
    FoldLeft(LAMBDA acc, c : (acc * b + (IF b = 16 THEN HexVal(c) ELSE c - 48)) % 256, 0, s)

Init ==
    /\ input \in BoundedSeq(Alphabet, MaxInput)
    /\ pos = 1 /\ buf = <<>> /\ pc = "loop"
    /\ tok = "none" /\ stored = Skipped

(* Mutant: the \" escape appends a backslash (copy of the \\ case). *)
EscapeStep_quote_as_backslash ==
    LET c == IF pos + 1 <= Len(input) THEN input[pos + 1] ELSE NULByte IN
    IF c = BSL \/ c = DQ THEN pos' = pos + 2 /\ buf' = Append(buf, BSL)
    ELSE IF c \in {120, 88}
    THEN LET n == RunLen(SubSeq(input, pos + 2, Len(input)), HexDigits, 2) IN
         pos' = pos + 2 + n
         /\ buf' = IF n > 0 THEN Append(buf, DigitsVal(SubSeq(input, pos + 2, pos + 1 + n), 16)) ELSE buf
    ELSE LET n == RunLen(SubSeq(input, pos + 1, Len(input)), OctDigits, 3) IN
         pos' = pos + 1 + n
         /\ buf' = IF n > 0 THEN Append(buf, DigitsVal(SubSeq(input, pos + 1, pos + n), 8)) ELSE buf

(* One escape after chr(s, '\\'): \\ and \" append themselves; x or X   *)
(* then hex digits append their value ("illegal hexadecimal escape" if  *)
(* none); octal digits append theirs; anything else is warned about and *)
(* left unread, so the next iteration appends it as a plain byte.      *)
EscapeStep ==
    LET c == IF pos + 1 <= Len(input) THEN input[pos + 1] ELSE NULByte IN
    IF c = BSL \/ c = DQ THEN pos' = pos + 2 /\ buf' = Append(buf, c)
    ELSE IF c \in {120, 88}
    THEN LET n == RunLen(SubSeq(input, pos + 2, Len(input)), HexDigits, 2) IN
         pos' = pos + 2 + n
         /\ buf' = IF n > 0 THEN Append(buf, DigitsVal(SubSeq(input, pos + 2, pos + 1 + n), 16)) ELSE buf
    ELSE LET n == RunLen(SubSeq(input, pos + 1, Len(input)), OctDigits, 3) IN
         pos' = pos + 1 + n
         /\ buf' = IF n > 0 THEN Append(buf, DigitsVal(SubSeq(input, pos + 1, pos + n), 8)) ELSE buf

(* "while (!eof(s) && !eol(s) && peek(s) != '\"')": one iteration. *)
LoopStep ==
    /\ pc = "loop"
    /\ IF AtEof \/ Peek = NL \/ Peek = DQ
       THEN pc' = "end" /\ UNCHANGED <<pos, buf>>
       ELSE /\ IF Peek = BSL THEN EscapeStep
               ELSE pos' = pos + 1 /\ buf' = Append(buf, Peek)
            /\ UNCHANGED pc
    /\ UNCHANGED <<input, tok, stored>>

(* is_valid_utf8 on the bytes of buf.  Every byte the alphabet and its   *)
(* escapes can produce is below 0xC2, so a byte >= 0x80 is a lone        *)
(* continuation byte and invalid.                                        *)
IsValidUtf8(s) == \A i \in DOMAIN s : s[i] < 128

(* Mutant: the closing quote is skipped with next() whether it is there or not. *)
EndString_always_advances ==
    /\ pc = "end"
    /\ tok' = IF ~AtEof /\ Peek = DQ /\ IsValidUtf8(buf) THEN "STRING" ELSE "ERROR"
    /\ pos' = pos + 1
    /\ pc' = "rhs"
    /\ UNCHANGED <<input, buf, stored>>

(* After the loop: "unterminated string literal" without the closing    *)
(* quote, then the NUL terminator and the UTF-8 check.                   *)
EndString ==
    /\ pc = "end"
    /\ tok' = IF ~AtEof /\ Peek = DQ /\ IsValidUtf8(buf) THEN "STRING" ELSE "ERROR"
    /\ pos' = IF ~AtEof /\ Peek = DQ THEN pos + 1 ELSE pos
    /\ pc' = "rhs"
    /\ UNCHANGED <<input, buf, stored>>

(* The bytes "%s" copies: up to the first NUL. *)
CString(s) ==
    IF \E i \in DOMAIN s : s[i] = NULByte
    THEN SubSeq(s, 1, (CHOOSE i \in DOMAIN s : s[i] = NULByte /\ \A j \in 1..(i - 1) : s[j] # NULByte) - 1)
    ELSE s

(* rhs, case TOK_STRING (no string yet): "must not be empty" tests the   *)
(* first byte; snprintf copies the C string, "too long" if >= 256.       *)
RhsString ==
    /\ pc = "rhs"
    /\ stored' = IF tok = "STRING" /\ buf # <<>> /\ buf[1] # NULByte /\ Len(CString(buf)) < 256
                 THEN CString(buf) ELSE Skipped
    /\ pc' = "done"
    /\ UNCHANGED <<input, pos, buf, tok>>

Next == LoopStep \/ EndString \/ RhsString

Spec == Init /\ [][Next]_vars

-----------------------------------------------------------------------------
(* The reference: STRING := '"' {CHAR} '"' with CHAR := graphic-char |    *)
(* "\\\\" | "\\\"" | "\\" octal{1,3} | "\\" ("x"|"X") hex{1,2}, escapes   *)
(* taking as many digits as they can.  Decode(b) is {the bytes b         *)
(* denotes} when b is a sequence of CHARs, {} otherwise.                  *)
RECURSIVE Decode(_)
Decode(b) ==
    IF b = <<>> THEN {<<>>}
    ELSE IF b[1] \in {DQ, NL} THEN {}
    ELSE IF b[1] # BSL THEN {<<b[1]>> \o r : r \in Decode(Tail(b))}
    ELSE IF Len(b) < 2 THEN {}
    ELSE IF b[2] \in {BSL, DQ} THEN {<<b[2]>> \o r : r \in Decode(SubSeq(b, 3, Len(b)))}
    ELSE LET hx == RunLen(SubSeq(b, 3, Len(b)), HexDigits, 2)
             oc == RunLen(SubSeq(b, 2, Len(b)), OctDigits, 3)
         IN IF b[2] \in {120, 88} /\ hx > 0
            THEN {<<DigitsVal(SubSeq(b, 3, 2 + hx), 16)>> \o r : r \in Decode(SubSeq(b, 3 + hx, Len(b)))}
            ELSE IF oc > 0
            THEN {<<DigitsVal(SubSeq(b, 2, 1 + oc), 8)>> \o r : r \in Decode(SubSeq(b, 2 + oc, Len(b)))}
            ELSE {}

(* The literals the input starts with: a body of CHARs, then the quote. *)
Literals ==
    {i \in 1..Len(input) : input[i] = DQ /\ Decode(SubSeq(input, 1, i - 1)) # {}}

TypeOK ==
    /\ input \in Seq(Alphabet) /\ pos \in 1..(MaxInput + 1)
    /\ buf \in Seq(0..255)
    /\ pc \in {"loop", "end", "rhs", "done"} /\ tok \in {"none", "STRING", "ERROR"}

(* lex() reads a literal the grammar allows as the bytes it denotes,     *)
(* stopping just after its closing quote, and returns ERROR for it only  *)
(* when those bytes are not valid UTF-8.                                 *)
LexesAsGrammar ==
    pc \in {"rhs", "done"} /\ Literals # {} =>
        LET i == CHOOSE i \in Literals : TRUE
            d == CHOOSE d \in Decode(SubSeq(input, 1, i - 1)) : TRUE
        IN IF IsValidUtf8(d) THEN tok = "STRING" /\ buf = d /\ pos = i + 1
           ELSE tok = "ERROR"

(* The right-hand-side string a production keeps is exactly the literal  *)
(* lexed: a literal rhs accepts is stored with all of its bytes.         *)
StoredAsLexed == pc = "done" /\ stored # Skipped => stored = buf
=============================================================================
