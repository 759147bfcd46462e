--------------------------- MODULE MCComposeLexer ---------------------------
(***************************************************************************)
(* The byte-level models of the lexer in one run: a behaviour either      *)
(* calls lex() until END_OF_FILE on a short file (ComposeLex), lexes a    *)
(* string literal with escapes and rhs's copy (ComposeLexString), or an   *)
(* include line (lex_include_string, the include_eol lex() and           *)
(* do_include's fopen: ComposeLexInclude).  The other models' variables  *)
(* stay at an idle, finished state.                                       *)
(***************************************************************************)
EXTENDS Naturals, Sequences, TLC

CONSTANTS Unset, NULL, Skipped, NotOpened, NoSymbol

VARIABLES
    entry,                                              \* "token", "string" or "include"
    tinput, tpos, tbuf, tpc, toks,                      \* ComposeLex
    sinput, spos, sbuf, spc, stok, sstored,             \* ComposeLexString
    iinput, ihome, ilpath, ipos, ibuf, ipc, ilalloc, itok, iopened \* ComposeLexInclude

tvars == <<tinput, tpos, tbuf, tpc, toks>>
svars == <<sinput, spos, sbuf, spc, stok, sstored>>
ivars == <<iinput, ihome, ilpath, ipos, ibuf, ipc, ilalloc, itok, iopened>>
vars == <<entry, tvars, svars, ivars>>

(* Files of up to 5 bytes over '<', '>', ':', the quote, newline, blank, *)
(* '#', the letters a and i and the digit 1; "include" is the word i,   *)
(* and the keysym names are a and i.                                    *)
Tok == INSTANCE ComposeLex
         WITH Alphabet <- {"<", ">", ":", "\"", "\n", " ", "#", "a", "i", "1"},
              Alpha <- {"a", "i"}, Digit <- {"1"}, MaxInput <- 5, BufSize <- 3,
              IncludeWord <- <<"i">>, KeysymOf <- (<<"a">> :> "a" @@ <<"i">> :> "i"),
              input <- tinput, pos <- tpos, buf <- tbuf, pc <- tpc, toks <- toks

(* String literals: 'a' (also a hex digit), '0', '1', 'x', '\\', '"' and *)
(* '\n', inputs of up to 5 bytes.                                        *)
Str == INSTANCE ComposeLexString
         WITH Alphabet <- {97, 48, 49, 120, 92, 34, 10}, MaxInput <- 5,
              input <- sinput, pos <- spos, buf <- sbuf, pc <- spc,
              tok <- stok, stored <- sstored, Skipped <- Skipped

(* Include lines: the expansion letters, '%', the quote, newline, blank *)
(* and '#', up to 5 bytes; a 3-byte buffer, so a 2-byte path fits with  *)
(* its NUL and $HOME (2 bytes) fits only on its own.                    *)
Inc == INSTANCE ComposeLexInclude
         WITH Alphabet <- {"%", "H", "L", "S", "\"", "\n", " ", "#"}, MaxInput <- 5,
              BufSize <- 3, HomeChoices <- {Unset, <<"H", "H">>},
              LocaleChoices <- {NULL, <<"L">>}, XLocaleDir <- <<"S">>,
              input <- iinput, home <- ihome, lpath <- ilpath, pos <- ipos,
              buf <- ibuf, pc <- ipc, lalloc <- ilalloc, tok <- itok, opened <- iopened,
              NotOpened <- NotOpened

TokIdle == tinput = <<>> /\ tpos = 1 /\ tbuf = <<>> /\ tpc = "done" /\ toks = <<"END_OF_FILE">>
StrIdle == sinput = <<>> /\ spos = 1 /\ sbuf = <<>> /\ spc = "done" /\ stok = "none" /\ sstored = Skipped
IncIdle == iinput = <<>> /\ ihome = Unset /\ ilpath = NULL /\ ipos = 1 /\ ibuf = <<>>
           /\ ipc = "done" /\ ilalloc = NULL /\ itok = "none" /\ iopened = NotOpened

Init ==
    \/ entry = "token" /\ Tok!Init /\ StrIdle /\ IncIdle
    \/ entry = "string" /\ Str!Init /\ TokIdle /\ IncIdle
    \/ entry = "include" /\ Inc!Init /\ TokIdle /\ StrIdle

Next ==
    \/ entry = "token" /\ Tok!Next /\ UNCHANGED <<entry, svars, ivars>>
    \/ entry = "string" /\ Str!Next /\ UNCHANGED <<entry, tvars, ivars>>
    \/ entry = "include" /\ Inc!Next /\ UNCHANGED <<entry, tvars, svars>>

(* Each lexer call runs on one thread until it returns. *)
Spec == Init /\ [][Next]_vars /\ WF_vars(Next)

TypeOK == entry \in {"token", "string", "include"} /\ Tok!TypeOK /\ Str!TypeOK /\ Inc!TypeOK

(* Each newline produces exactly one END_OF_LINE and no token swallows  *)
(* one, so parse()'s skip to END_OF_LINE resynchronises on the next line. *)
LineSync == Tok!LineSync

(* lex() reads a grammatical string literal as the bytes it denotes. *)
LexesAsGrammar == Str!LexesAsGrammar

(* do_include opens exactly the expanded path of a well-formed include  *)
(* line, read from s->buf after the include_eol lex() (parser.c:457).   *)
IncludeAsSpecified == Inc!IncludeAsSpecified

(* The path %L allocates is freed on the "too long" exit as on success. *)
LocalePathFreed == Inc!LocalePathFreed

(* The string-literal loop and the include line (lex_include_string and *)
(* its include_eol lex()) each return.                                  *)
Terminates == <>(spc = "done" /\ ipc = "done")

(* parse()'s repeated lex() calls reach END_OF_FILE on every input, the  *)
(* keysym loop's "unterminated keysym literal" exit included.            *)
LexReachesEof == Tok!Terminates
=============================================================================
