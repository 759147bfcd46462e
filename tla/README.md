# TLA+ models of the Compose engine

This directory holds TLA+ models of the Compose sequence engine: the compiler
(`src/unnamed/part_000`, parser.c) that turns a Compose file into a trie, and
the runtime walker (`src/src/compose/compose.h`, which contains compose.h and
state.c) that feeds keysyms through that trie. The TLC model checker checks
every model on small bounded instances.

## The system

| Part | Code | What it does |
|------|------|--------------|
| Scanner | scanner-utils.h (not in the repository) | Byte cursor with line/column tracking and a token buffer. Its cursor and buffer are modelled from the spec inside the lexer modules; line/column tracking is not. |
| Lexer | `lex`, `lex_include_string` (parser.c:88-279) | Produce tokens: END_OF_LINE, END_OF_FILE, INCLUDE, INCLUDE_STRING, LHS_KEYSYM, COLON, STRING, RHS_KEYSYM, ERROR. |
| Path expander | parser.c:229-271 | Expand `%%`, `%H`, `%L` and `%S` in include paths. |
| Parser driver | `parse`, `do_include` (parser.c:371-543) | Run a goto-labelled recogniser over the tokens, recover from errors, recurse into includes. |
| Trie builder | `add_node`, `add_production` (parser.c:290-366) | Insert a production into the flat node array, applying the conflict rules. |
| Compose table | `struct xkb_compose`, `xkb_compose_new` (compose.h:31-51, compose.c:29-69) | Hold the node array `tree` and the NUL-separated string blob `utf8`. |
| State machine | state.c (compose.h:81-207) | Track `prev_context` and `context`, with feed, reset, status, utf8 and one_sym. |
| Loader | compose.c:90-218 | Provide `new_from_file`, `new_from_buffer` and `new_from_locale`. |
| Reference counting | compose.c:71-88, compose.h:110-125 | Table and state refcounts. A state holds one reference to its table. |

These parts interact as follows:

- The loader creates the table (a root node plus a one-byte blob) and calls `parse`.
- `parse` pulls tokens from the lexer. On each accepted line it calls `add_production`.
- On `include "path"`, `parse` calls `do_include`, which opens the file and runs a nested `parse` on the same table.
- Any failure fails the whole compilation, and the table is released.
- Once built, the table is read-only. A state walks it one keysym at a time.

Everything is single-threaded and runs to completion. The hard parts are these:

- The results depend on the **order** of productions: the prefix override, the prefix skip and the duplicate skip.
- The walker's status is computed from **two successive positions**.
- The parser has **error recovery** and **recursion**.

## Modules

### ComposeSpec: the abstract specification

This module states what the table and walker promise, using sequences.

- `table` maps keysym sequences to `[string, keysym]`.
- `Add(p)` applies the conflict rules:
  - A sequence that is a strict prefix of an existing key is skipped.
  - A duplicate is skipped.
  - A longer sequence removes its stored prefixes.
- `pending` is the sequence typed so far and `cancelled` is the cancel flag.
- `Feed(k)` extends `pending` if the result is still a prefix of some key. Otherwise it falls back to `<<>>`, and it is cancelled when a sequence was in progress.
- `Status`, `Utf8` and `OneSym` are what the accessors must report.

### ComposeTrie: the trie builder and the table (parser.c:290-366, compose.c:56-66)

State:

- `tree` is `compose->tree`, indexed from 0.
- `utf8` is `compose->utf8`. A string is one model value in one cell, followed by a NUL cell, so offsets keep `darray_size` arithmetic.
- `nprod` counts calls and is used only as a bound.

Definitions:

- `add_production` is the whole function. It is built from:
  - `FindSibling`, the while-loop at lines 316-325;
  - `Descend`, the successor creation with the prefix override at lines 330-345;
  - `Walk`, the for-loop;
  - the prefix and duplicate skips, and the string interning.
- `TrieEntries` and `Lookup` read the trie back as a map from sequences to results. The first level hangs off `root.next`, exactly as `feed` searches it.

Properties, each checked after every sequence of productions:

- `TrieWellFormed`: the data-model invariants of spec §3/§8. Links are valid, keysyms are distinct along each sibling chain, internal nodes are never leaves, and offsets point at strings.
- `NoDeadEnd`: every reachable non-root node continues or has a result.
- `NoOrphanNodes`: every allocated node is reachable.

### ComposeState: the walker over a built table (compose.h:90-207)

This module EXTENDS ComposeTrie.

- The `build` phase adds productions. `StateNew` then moves to the `run` phase, as `xkb_compose_new_from_*` returns before any state exists.
- `Feed`, `Reset`, `Status`, `GetUtf8` and `GetOneSym` are translated from state.c. `Feed` includes the modifier early return and the search from `tree[context].successor`, or from the root.
- A refinement mapping instantiates ComposeSpec:
  - `table <- Lookup(tree, utf8)`
  - `pending <- PathOf(context)`
  - `cancelled <- (context = 0 /\ tree[prev_context].successor # 0)`

Properties:

- `ImplementsComposeSpec` (`A!Spec`): every build and walk step is an abstract step.
- `ResultsMatch`: the three accessors agree with the abstract values.

### ComposeParser: the parser driver (parser.c:371-552)

Tokens replace bytes.

- A file's tokens are chosen nondeterministically the first time a position is read, and then kept in `content`. An include of the same file therefore re-reads the same tokens.
- `frames` is the stack of active `parse()` calls. Each frame holds its label (`pc`), position, the production under construction, `nerr` and `depth`.
- There is one action per label that lexes: `InitialEol`, `Include`, `IncludeEol`, `Lhs`, `Rhs` and `Skip`. Each covers the token read and the gotos up to the next lex.
- `unexpected`, `finished` and `initial` are helpers shared by the actions. `goto fail` sets the frame's label to `fail`.
- `Push` models `do_include`'s nested call, including the `include_depth++` post-increment. The file stays open (`nopen`) and mapped (`nmapped`) while the nested parse runs.
- `Return(ok)` is a `parse()` call returning. A nested call returns into `do_include`, which unmaps the file (`err_unmap`), closes it (`err_file`) and returns `ok`. Its caller goes to `initial` on true, or to `fail` on false. `ParseFail` is the `fail` label. A failure deep in nested includes therefore unwinds one activation per step.
- `emitted` records what reaches `add_production`. The trie's handling of that list is checked separately in ComposeTrie.

`Expected(Root, fuel)` is a reference definition of the grammar. It splits the tokens into lines, keeps the lines of the form `LHS{1..MAX_LHS_LEN} : RHS`, and replaces each good include line by the included file's productions. `IncludesOpen(Root, fuel)` says that every good include line, in the root and in every file it includes, names a file that opens.

Properties:

- `ParsesAsSpecified`: a successful parse emits exactly `Expected`, and `IncludesOpen` holds: an include that fails to open, at any depth, fails the whole parse. A parse that fails is not compared with a reference, so failing one error too early (at exactly MAX_ERRORS bad lines) is not caught.
- `IncludeDepthBounded`: no more than `MAX_INCLUDE_DEPTH` includes are open at once.
- `IncludesReleased`: exactly one FILE and one mapping are held per active include, and none once compilation has ended, whether it succeeds or fails.
- `Terminates`: `parse` always returns.

### ComposeRefs: reference counting (compose.c:71-88, state.c at compose.h:110-131)

This module tracks one refcount and one status ("unused", "live" or "freed") per table and per state, plus `state->compose`. It also tracks `chold` and `shold`, the references the application holds. The application calls the API in any order, but only on objects it holds a reference to, which is the API's contract.

- `compose_unref` is the shared body of `xkb_compose_unref`.
- `StateUnref` calls `compose_unref` on its table when the state's last reference is dropped.
- `NewCompose` and `NewComposeFails` are what the loader hands back, which ComposeLoader checks.

Properties:

- `RefcountsExact`: every live object's count equals its holders, namely the application's references plus one per live state on a table.
- `LiveIffReferenced`: an object is freed exactly when nothing references it. This rules out both use after free and leaks.

### ComposeLoader: one call of new_from_file / new_from_buffer / new_from_locale (compose.c:29-218)

The environment's answers are chosen once in `Init`:

- whether the flags and the format are valid;
- whether resolve_locale and calloc succeed;
- for each of XCOMPOSEFILE, `~/.XCompose` and the locale file, whether it exists and whether it opens;
- whether parsing succeeds.

Each action is the code between two of those answers. `TryOwned` is the shared "`cpath = path = get_..._path(); fopen; free(path); path = NULL`" block. `heap` holds the allocated path strings, and `open` holds the open FILEs.

Properties:

- `ReturnsAsDocumented`: a table is returned exactly in the documented success cases.
- `FirstOpenWins`: new_from_locale uses the search order of spec §4.7.
- `ReleasedOnReturn`: every exit closes the FILE and frees the table unless it is returned.
- `PathFreedOnReturn` and `LoggedPathNotNull`: these are the two violation runs.

### ComposeLexString: the string-literal branch of lex() and rhs's copy (parser.c:135-180, 486-501)

This module works on bytes.

- The input is every sequence of up to 5 bytes over `a 0 1 x \ " \n`, read after the opening quote.
- `LoopStep` is one iteration of the while-loop, and `EscapeStep` is its escape branch.
  - `\\` and `\"` append themselves.
  - `\x` takes 1-2 hex digits, and octal takes 1-3 digits.
  - An unknown escape is warned about and not consumed.
- `EndString` covers the unterminated-literal and UTF-8 checks.
- `RhsString` is `rhs`'s empty-string check followed by `snprintf("%s")`.
- The digit scanners `hex`/`oct` (scanner-utils.h) and `is_valid_utf8` (utf8.c) are not in the repository. They are modelled from the grammar in spec §6.

`Decode` is an independent recursive reference for the grammar's `STRING` rule. It gives no meaning to a literal with an unknown escape, a `\x` with no hex digit, or no closing quote, so for those literals `LexesAsGrammar` checks nothing about what the code appends.

Properties:

- `LexesAsGrammar`: every grammatical literal is lexed as the bytes it denotes, or rejected when they are not UTF-8.
- `StoredAsLexed`: a violation run.

### ComposeLex: lex() byte by byte (parser.c:88-206)

- The input is every file of up to 5 bytes over `< > : " \n space # a i 1`. The buffer holds 3 bytes, so 2 characters plus the NUL.
- `LexStart` is the start of one `lex()` call: the blank loop (`\n` returns END_OF_LINE), the `#` comment skipped up to its newline, END_OF_FILE, and the dispatch on the first byte of a token. The "unrecognized token" branch skips the line (`SkipLine`).
- `KeysymLiteral`, `StringLiteral` and `Identifier` are the loops of the `<name>`, `"..."` and identifier branches, each followed by its checks: closing byte, buffer overflow (the NUL does not fit), and `xkb_keysym_from_name`.
- The keysym loop (parser.c:113) runs while the next byte is neither `>` nor a newline. Unlike every other loop of `lex()`, it does not test `eof(s)`. At the end of the input `peek()` and `next()` give `'\0'` without advancing (`NUL` in the model), so the loop appends NULs until the buffer is full and then repeats the same state. `eol()` is read as the newline test, the one that the code pairs with `!eof(s)` everywhere else (scanner-utils.h is not in the repository; spec §4.1 calls it "`\n` or end").
- `xkb_keysym_from_name` is outside the repository. It is the constant function `KeysymOf` over the names `a` and `i`. The identifier `i` stands for `include`.
- The escapes of a string literal are left to ComposeLexString.

Properties:

- `LineSync`: between two `lex()` calls, the number of END_OF_LINE tokens equals the number of newlines read. No branch swallows a `\n`. The parser's error recovery (skip to END_OF_LINE) depends on this.
- `Terminates`: the repeated `lex()` calls reach END_OF_FILE. It is violated (run `lexer_keysym_eof`).

### ComposeLexInclude: the include line (parser.c:208-279, 446-460)

- The input is every string of up to 5 bytes over `% H L S " \n space #`, read after `include`. `$HOME` is unset or `HH`. The locale's Compose path is NULL or `L`. The X locale dir is `S`.
- `IncludeStart` skips blanks and requires the opening quote.
- `IncludeLoop` is one iteration of the copy loop. `Expansion` is its `%` branch: `%%`, `%H`, `%L`, `%S` and the unknown-escape error. Each append is checked against the buffer size (`buf_appends` and `buf_append`).
- `%L` takes two steps. `Expansion` calls `get_locale_compose_file_path`, which allocates (`lalloc`). `LocalePath` then reports a NULL as an error, or appends the path, and frees it on both the "too long" exit and the success path.
- `IncludeClose` is the closing quote and the NUL check.
- `IncludeEol` is parse()'s `include_eol`. It calls `lex()` once more (blanks, a comment, END_OF_LINE or END_OF_FILE) and only then opens the path still held in `s->buf`. `opened` is what `do_include` would pass to `fopen`. `CString` cuts the buffer at its NUL.

`ExpandPath` is an independent recursive reference: the set of strings a quoted path can expand to, under the environment given. `ExpectedOpen` says what a correct include line opens.

Properties:

- `IncludeAsSpecified`: when the line is done, the file opened is exactly the expanded path when the input is `"path"` followed by blanks, an optional comment and a newline, and nothing otherwise. This property catches a `lex()` in `include_eol` that resets the buffer before the path is used.
- `LocalePathFreed`: outside the `%L` branch, no locale path is held.
- `Terminates`: the include line always finishes, with a path opened or an error.

### MC modules

- `MCComposeTrie` and `MCComposeState` give keysyms and strings as model values. `MCComposeParser` gives the files, the include targets and the tokens for the two parser violation runs.
- `MCComposeRefs` gives two tables and two states as model values, with a symmetry over each set. `MCComposeLoader` gives the three candidate paths and NULL. `MCComposeLexString` gives the byte alphabet for the stored-string violation.
- `MCComposeLexer` checks the three lexer modules in one run. It is a disjoint union. `entry` picks one of `token`, `string` or `include` in the initial state. The chosen module runs, and the other two stay at their idle values. The three share one run only to keep the project's run list short. Their state spaces are independent, so the union checks exactly what three separate runs would.
- `MCComposeParsers` checks two configurations of ComposeParser in one run, in the same disjoint-union way. `entry` is `grammar` (one file, MAX_LHS_LEN 2, 6 tokens) or `includes` (main and sub, MAX_LHS_LEN 1, 4 tokens per file). Their properties are conjoined.
- `KeysymUtf8` is the abstraction of `xkb_keysym_to_utf8`. It maps `a` to a string and the other keysyms to `""`.

## Runs

| Run | Bounds | Shows |
|-----|--------|-------|
| trie_structure | 2 keysyms, 2 strings, lhs up to 3, 3 productions (588k states, ~70 s) | Every order of up to 3 productions hits the override, the prefix skip, the duplicate skip, keysym-only leaves and 3-deep chains. The table invariants, NoDeadEnd and NoOrphanNodes hold. |
| state_refines_spec | keysyms a, b and modifier shift, lhs up to 2, 2 productions, inputs include NoSymbol (22k states, ~50 s) | The walker refines ComposeSpec and the accessors report its results. Two productions already produce override, skip and cancel cases. Feeding NoSymbol and modifiers is included. |
| parser | grammar branch: one file, up to 6 tokens, MAX_LHS_LEN 2. Includes branch: main and sub, where main can include sub or an unopenable path and sub the unopenable path, up to 4 tokens per file, MAX_LHS_LEN 1. Both: MAX_ERRORS 1 (700k states, ~85 s) | Every token stream of that length parses as the grammar says, or fails. This covers error recovery, the error limit and the too-long LHS. Included productions are spliced in place, and a successful parse read no include that fails to open. A failure inside `sub` (an unopenable include or too many errors) unwinds through `main`'s `do_include`, which still unmaps and closes `sub`. |
| parser_rhs_keysym (violation) | inputs where an RHS keysym need not end its line | `<a> : a` at EOF, or followed by another token, is still emitted (parser.c:503). |
| parser_include_loop (violation) | one file that includes itself | Nesting grows past MAX_INCLUDE_DEPTH because of `include_depth++` (parser.c:403). |
| refcounts | 2 tables, 2 states, refcounts up to 3, symmetry over tables and over states (296 states) | Any interleaving of ref, unref, state_new, state_unref and get_compose keeps counts exact and frees exactly the unreferenced objects. Two states on one table, plus an application reference, cover "table released before its last state". |
| loader | all 3 entry points × every environment answer (17k states) | The documented return value, first-open-wins, and release on every exit. |
| loader_path_leak (violation) | same | `~/.XCompose` opens but fails to parse, and `path` is never freed (compose.c:208-211). |
| loader_null_log (violation) | same | The file came from XCOMPOSEFILE, and `log_dbg` receives `path == NULL` for `%s` (compose.c:214). |
| lexer | token branch: files of up to 5 bytes over 10 symbols, a 3-byte buffer. String branch: literals of up to 5 bytes over 7 symbols. Include branch: lines of up to 5 bytes over 8 symbols, 2 × 2 environments (1.24M states, ~70 s) | `lex()` never loses or invents a line end. Grammatical string literals, with their escapes and digit limits, lex as the bytes they denote, or are rejected when those are not UTF-8. Include paths expand as specified, overflow is rejected, and the path opened is the one that was read. The `%L` path is freed on every exit. The string and include branches always return. |
| lexer_keysym_eof (violation) | the token branch of `lexer` | A file ending in `<` or `<a`: `lex()` stays in the keysym loop forever, and END_OF_FILE is never returned (parser.c:113). |
| lex_string_stored (violation) | same | `"0\0"` is accepted and stored as `"0"` (parser.c:495). |

On the bounds:

- MAX_ERRORS (10) is scaled to 1 and MAX_INCLUDE_DEPTH (5) to 1. Both are compared the same way at every value, so the boundary behaviour, one below and one at the limit, is reached.
- MAX_LHS_LEN (10) is scaled to 2 or 3. The "too many keysyms" branch is exercised.
- Every mutant listed in PROJECT.json is caught by its run.

## Fairness

ComposeParser's `Spec` and the three lexer modules' specifications have fairness: `WF_vars(Next)`. `parse()` is one single-threaded call that runs until it returns, and it calls `lex()` until END_OF_FILE or a failure. So as long as a step is enabled, it is taken. The lexer run's `Terminates` relies on this. Weak fairness does not help the keysym loop at the end of the input: its only step leaves the state as it is, so `lexer_keysym_eof` shows a real hang, not a missing fairness assumption.

The walker, the builder and the reference counts have no liveness property, since the application may stop calling at any time. The loader and the string lexer are straight-line code with no loop that could fail to end, except the literal loop, which advances on every iteration (the lexer run also checks that it ends). Their properties are therefore checked at the point of return.

## Findings

1. **Include depth never increases** (code_bug, parser.c:403). See `parser_include_loop`.
2. **An RHS keysym ends the production without a newline** (spec_code_divergence, parser.c:503). See `parser_rhs_keysym`.
3. **No unreachable nodes** (spec_gap). Spec §9 says the losing side of a prefix conflict leaves unreachable nodes. `NoOrphanNodes` holds, so add_production never leaves any.
4. **Path leaked on a parse failure** (code_bug, compose.c:208). See `loader_path_leak`.
5. **NULL passed to `%s`** (code_bug, compose.c:214). See `loader_null_log`.
6. **An embedded NUL silently truncates a string** (spec_code_divergence, parser.c:495). See `lex_string_stored`.
7. **lex() hangs on a keysym literal at end of file** (code_bug, parser.c:113). The keysym loop has no `eof(s)` test. See `lexer_keysym_eof`.
8. **An include on the last line needs a newline** (spec_gap, parser.c:455). The grammar reads `FILE := { ... "\n" | INCLUDE }`, so an include needs no newline after it. `include_eol` requires END_OF_LINE, and `include "x"` at end of file is an error. See `IncludeAsSpecified` in the lexer run, whose reference follows the code here.
9. Spec §3 says `root.successor` points at the first top-level alternative. In the code, the first level hangs off `root.next`, and `feed` starts its search at the root itself. The models follow the code. No property distinguishes the two readings from the outside.

## Not modelled

1. **Parser composed with the trie**: feeding `emitted` into `add_production` inside a single module. This would connect the file contents to the walker's results. The parser and trie runs each already reach several hundred thousand states, and their product does not fit in a run of a few minutes at bounds where either part is interesting.
2. **Line and column tracking** of the scanner (scanner-utils.h, not in the repository). It only feeds log messages.
3. **get_utf8 on a keysym-only leaf**: get_utf8 returns whatever `xkb_keysym_to_utf8` returns. That function is outside the repository, and the spec does not state its return convention, so a model would be invented rather than translated. The `snprintf` into the caller's buffer and its return value are not modelled either: strings are model values, and a byte-length model of `snprintf` would only be checked against itself.
4. **`map_file` failing** in `do_include` closes the file and returns false within the same call. It is therefore indistinguishable from an `fopen` failure, and the model has one unopenable path for both.

Logging is left out, except for the one log call whose argument is a hazard (compose.c:214).
