------------------------------ MODULE ComposeLex ------------------------------
(***************************************************************************)
(* lex() (parser.c) byte by byte, called again after every token until it *)
(* returns END_OF_FILE, as parse() does.  Blanks and '#' comments, the     *)
(* keysym literal <name>, ':', the string literal, identifiers ("include" *)
(* or a right-hand-side keysym) and the "unrecognized token" line skip.   *)
(* xkb_keysym_from_name is outside the repository and is given by the     *)
(* constant function KeysymOf over a few names.  The escapes of a string *)
(* literal are checked by ComposeLexString; here the alphabet has no     *)
(* backslash, so the string loop only appends plain bytes.                *)
(***************************************************************************)
EXTENDS Naturals, Sequences, FiniteSets, SequencesExt

CONSTANTS
    Alphabet,       \* bytes the input is drawn from
    Alpha,          \* the bytes is_alpha accepts (is_alnum: Alpha \cup Digit)
    Digit,
    MaxInput,       \* bound: input length; also bounds the lex() calls
    BufSize,        \* bound: sizeof(s->buf)
    IncludeWord,    \* the bytes of "include"
    KeysymOf,       \* xkb_keysym_from_name on the names it knows
    NoSymbol

ASSUME "\\" \notin Alphabet

DQ == "\""
NL == "\n"
SP == " "
NUL == "NUL"

VARIABLES
    input,      \* the bytes of the file (fixed)
    pos,        \* scanner position (1-based)
    buf,        \* s->buf[0 .. buf_pos)
    pc,         \* "lex" between branches, "keysym", "string", "ident", "done"
    toks        \* the tokens lex() has returned, in order

vars == <<input, pos, buf, pc, toks>>

Peek == IF pos <= Len(input) THEN input[pos] ELSE NUL
AtEof == pos > Len(input)

(* The position of the next '\n' from p on, or just past the end. *)
LineEnd(p) ==
    LET nl == SelectInSubSeq(input, p, Len(input), LAMBDA c : c = NL)
    IN IF nl = 0 THEN Len(input) + 1 ELSE nl

BufAppend(b, c) == IF Len(b) + 1 <= BufSize THEN Append(b, c) ELSE b

Lookup(name) == IF name \in DOMAIN KeysymOf THEN KeysymOf[name] ELSE NoSymbol

Init ==
    /\ input \in BoundedSeq(Alphabet, MaxInput)
    /\ pos = 1 /\ buf = <<>> /\ pc = "lex" /\ toks = <<>>

(* lex() returns t; parse() calls it again (or stops after END_OF_FILE). *)
Return(t) == toks' = Append(toks, t) /\ pc' = IF t = "END_OF_FILE" THEN "done" ELSE "lex"

(* "Skip line.": everything up to the newline, which is left unread. *)
SkipLine == pos' = LineEnd(pos) /\ Return("ERROR")

(* Mutant: the comment skip also consumes the newline that ends it. *)
LexStart_comment_eats_newline ==
    /\ pc = "lex"
    /\ Len(toks) <= MaxInput
    /\ CASE Peek \in {SP, NL} ->
              pos' = pos + 1 /\ UNCHANGED buf
              /\ IF Peek = NL THEN Return("END_OF_LINE") ELSE UNCHANGED <<pc, toks>>
         [] Peek = "#" -> pos' = LineEnd(pos) + 1 /\ UNCHANGED <<buf, pc, toks>>
         [] AtEof -> Return("END_OF_FILE") /\ UNCHANGED <<pos, buf>>
         [] Peek = "<" -> pos' = pos + 1 /\ buf' = <<>> /\ pc' = "keysym" /\ UNCHANGED toks
         [] Peek = ":" -> pos' = pos + 1 /\ Return("COLON") /\ UNCHANGED buf
         [] Peek = DQ -> pos' = pos + 1 /\ buf' = <<>> /\ pc' = "string" /\ UNCHANGED toks
         [] Peek \in Alpha \cup {"_"} -> buf' = <<>> /\ pc' = "ident" /\ UNCHANGED <<pos, toks>>
         [] OTHER -> SkipLine /\ buf' = <<>>
    /\ UNCHANGED input

(* The start of lex(): one iteration of the blank loop ('\n' returns      *)
(* END_OF_LINE), a '#' comment skipped to the end of its line, END_OF_FILE, *)
(* or a new token (buf_pos = 0) dispatched on its first byte.            *)
LexStart ==
    /\ pc = "lex"
    /\ Len(toks) <= MaxInput
    /\ CASE Peek \in {SP, NL} ->
              pos' = pos + 1 /\ UNCHANGED buf
              /\ IF Peek = NL THEN Return("END_OF_LINE") ELSE UNCHANGED <<pc, toks>>
         [] Peek = "#" -> pos' = LineEnd(pos) /\ UNCHANGED <<buf, pc, toks>>
         [] AtEof -> Return("END_OF_FILE") /\ UNCHANGED <<pos, buf>>
         [] Peek = "<" -> pos' = pos + 1 /\ buf' = <<>> /\ pc' = "keysym" /\ UNCHANGED toks
         [] Peek = ":" -> pos' = pos + 1 /\ Return("COLON") /\ UNCHANGED buf
         [] Peek = DQ -> pos' = pos + 1 /\ buf' = <<>> /\ pc' = "string" /\ UNCHANGED toks
         [] Peek \in Alpha \cup {"_"} -> buf' = <<>> /\ pc' = "ident" /\ UNCHANGED <<pos, toks>>
         [] OTHER -> SkipLine /\ buf' = <<>>
    /\ UNCHANGED input

(* "while (peek(s) != '>' && !eol(s)) buf_append(s, next(s))", then the  *)
(* closing '>' ("unterminated keysym literal"), the NUL ("too long") and  *)
(* xkb_keysym_from_name (NoSymbol: "unrecognized keysym").  Unlike the    *)
(* other loops of lex() this one has no eof(s) test: at the end of the    *)
(* input peek() and next() return '\0' without advancing, so the loop    *)
(* appends NULs until the buffer is full and then spins in place.  eol()  *)
(* is the '\n' test the other loops pair with !eof(s).                   *)
KeysymLiteral ==
    /\ pc = "keysym"
    /\ IF Peek # ">" /\ Peek # NL
       THEN pos' = (IF AtEof THEN pos ELSE pos + 1)
            /\ buf' = BufAppend(buf, Peek) /\ UNCHANGED <<pc, toks>>
       ELSE /\ pos' = IF Peek = ">" THEN pos + 1 ELSE pos
            /\ Return(IF Peek = ">" /\ Len(buf) + 1 <= BufSize /\ Lookup(buf) # NoSymbol
                      THEN "LHS_KEYSYM" ELSE "ERROR")
            /\ UNCHANGED buf
    /\ UNCHANGED input

(* The string literal without escapes: plain bytes up to the quote, then *)
(* "unterminated string literal", the NUL and the UTF-8 check (every     *)
(* byte of the alphabet is ASCII).                                       *)
StringLiteral ==
    /\ pc = "string"
    /\ IF ~AtEof /\ Peek # NL /\ Peek # DQ
       THEN pos' = pos + 1 /\ buf' = BufAppend(buf, Peek) /\ UNCHANGED <<pc, toks>>
       ELSE /\ pos' = IF Peek = DQ THEN pos + 1 ELSE pos
            /\ Return(IF Peek = DQ /\ Len(buf) + 1 <= BufSize THEN "STRING" ELSE "ERROR")
            /\ UNCHANGED buf
    /\ UNCHANGED input

(* "while (is_alnum(peek(s)) || peek(s) == '_')", then the NUL ("identifier *)
(* is too long"), "include", or the keysym the name denotes.             *)
Identifier ==
    /\ pc = "ident"
    /\ IF Peek \in Alpha \cup Digit \cup {"_"}
       THEN pos' = pos + 1 /\ buf' = BufAppend(buf, Peek) /\ UNCHANGED <<pc, toks>>
       ELSE /\ Return(CASE Len(buf) + 1 > BufSize -> "ERROR"
                        [] buf = IncludeWord -> "INCLUDE"
                        [] Lookup(buf) # NoSymbol -> "RHS_KEYSYM"
                        [] OTHER -> "ERROR")
            /\ UNCHANGED <<pos, buf>>
    /\ UNCHANGED input

Next == LexStart \/ KeysymLiteral \/ StringLiteral \/ Identifier

(* parse() calls lex() on one thread until END_OF_FILE or a failure. *)
Spec == Init /\ [][Next]_vars /\ WF_vars(Next)

-----------------------------------------------------------------------------
(* Each lex() call but END_OF_FILE consumes a byte, so at most           *)
(* MaxInput + 1 tokens are returned and the bound on calls never binds.  *)
TypeOK ==
    /\ input \in Seq(Alphabet) /\ pos \in 1..(MaxInput + 1)
    /\ buf \in Seq(Alphabet \cup {NUL}) /\ Len(buf) <= BufSize
    /\ pc \in {"lex", "keysym", "string", "ident", "done"}
    /\ Len(toks) <= MaxInput + 1
    /\ toks \in Seq({"END_OF_LINE", "END_OF_FILE", "LHS_KEYSYM", "COLON", "STRING",
                     "INCLUDE", "RHS_KEYSYM", "ERROR"})

(* The number of times t occurs in the sequence s. *)
Occurrences(s, t) == Len(SelectSeq(s, LAMBDA x : x = t))

(* Between two lex() calls, each newline read so far has produced exactly *)
(* one END_OF_LINE and no other token has swallowed one: the comment and  *)
(* "unrecognized token" skips, and the keysym, string and identifier      *)
(* loops all stop before the '\n'.  parse()'s error recovery (skip to     *)
(* END_OF_LINE) and its line accounting depend on it.                    *)
LineSync ==
    pc \in {"lex", "done"} =>
        Occurrences(toks, "END_OF_LINE") = Cardinality({i \in DOMAIN input : i < pos /\ input[i] = NL})

(* parse() calls lex() until it returns END_OF_FILE: each call returns,  *)
(* and the calls reach the end of the input.                             *)
Terminates == <>(pc = "done")
=============================================================================
