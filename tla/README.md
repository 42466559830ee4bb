# Formal models of sup-xml

TLA+ models of the parts of sup-xml whose correctness rests on state that many
calls, several threads or a divided input build up together, and of the
algorithms whose shortcuts are easy to get wrong; TLC configurations that check
them on small instances; and proofs of the central theorems for every size. Each
module is translated from the source at this commit, and `PROJECT.json` (`map`)
gives for each definition the lines it stands for.

1. [The system](#1-the-system) – components, state, interactions, what is hard
2. [The modules](#2-the-modules) – how they correspond to the code
3. [The runs](#3-the-runs) – what is checked, within which bounds
4. [Fairness](#4-fairness)
5. [The proofs](#5-the-proofs)
6. [Where code and comments disagree](#6-where-code-and-comments-disagree)
7. [What is not modelled](#7-what-is-not-modelled)
8. [Plan](#8-plan)

To repeat a result, in this directory: `tlc -config MCDict.cfg Dict`,
`tlapm Dict_proofs.tla`.

## 1. The system

sup-xml is a workspace of Rust crates: `tree` (node memory and string interner),
`core` (parsers, validators, XPath, serializers), `xslt`, `compat` (a C library
with the ABI of libxml2 and libxslt), `api` and `cli`.

| component | state it keeps | operations | correct means |
|---|---|---|---|
| string interner, `tree/dict.rs` | counter, parent, table of canonical pointers and the set of owned ones per dict | `new_refcounted`, `new_sub`, `add_ref`, `release`, `intern`, `lookup`, `owns` | a dict lives exactly as long as it is owned; a pointer handed out stays valid; one name, one pointer |
| arena lifetime, `compat/mutate.rs`, `dict.rs` | keep-alive list, pending arena and pending re-intern of each thread; arenas retained by a dict | document and node creation, cross-document linking, `xmlDictLookup`, `xmlFreeDoc`, exit of a thread | a node reached from a live document lies in live memory, and so does its name |
| tree mutation, `compat/mutate.rs` | five pointers per node | `xmlAddChild`, siblings, replace, unlink, free, content, root | lists stay lists; a call moves what it names and nothing else |
| byte reader, `core/xml_bytes_reader.rs`, `scanner.rs` | depth, element stack, stack of input streams, queued event, expansion budget, recovered errors | `next()` | events nest; exactly the well-formed is read without a report; ends |
| streaming reader, `core/streaming_reader.rs` | rolling buffer, cursor, end-of-input flag | `with_size_hint`, `next_event` | the division of the input into reads is invisible; memory is bounded |
| push parser, `compat/pushparse.rs`, `pushincr.rs`, `saxreplay.rs` | bytes so far, watermark of delivered events, the context whose state is checked out | `xmlParseChunk`, create, free and reset, from callbacks too | each event delivered once, in order and in full |
| subtree stream, iterparse, selectors, `core/stream_parser.rs`, `iterparse.rs`, `selector.rs` | depth, names, namespace frames, current subtree; frames and counters | `next()`, `path`, `matches` | each match once, with its namespaces; a path names its element |
| output buffers, xmlTextWriter, `compat/outbuf.rs`, `xmlwriter.rs` | staged bytes, encoder, error flag; open elements, the owed `>` | some forty writer calls, flush, close | the bytes are the document the calls describe |
| xmlTextReader, `compat/reader.rs` | cursor, attribute cursor, strings handed out | `Read`, `Next`, `NextSibling`, `MoveTo…`, accessors | every node and end once, in document order |
| regular expressions, `core/regex` | thread-local scratch with a generation counter | compile, `is_match`, `find_iter` | the language of the pattern, leftmost first |
| DTD, XSD and RELAX NG content, `dtd/validate.rs`, `xsd/dfa.rs`, `relaxng.rs` | automaton and cursor; residual pattern | compile, step, end of element | the language of the content model |
| XSD identity constraints, `xsd/validate.rs`, `identity.rs` | frames, open scopes, key tables, remembered content | start and end of an element | the tables are those of a reader with the whole document |
| canonical XML, `core/canonical.rs` | frames of declarations rendered | `canonicalize` | equal documents, equal bytes; no meaning lost, nothing twice |
| catalogs, `core/catalog.rs` | chain of loaded files | `resolve`, `resolve_uri` | the first file in order that has an answer gives it; chains end |
| XInclude, `core/xinclude.rs`, `compat/xinclude.rs` | depth, open hrefs, total bytes | resolve, fallback | the expansion of the document; each error path restores the state |
| XSLT rules, `xslt/compiler.rs`, `pattern.rs` | precedence counter, source order paths | compile, choose a template | the order of import levels the standard gives |
| XSLT execution, `xslt/eval.rs` | current node, rule, group, tunnel parameters, variable frames, depth | every instruction with a body | each body finds its own context again |
| XPath, `core/xpath`, `core/xpath/pattern.rs` | index that numbers the nodes | paths, predicates, patterns | the nodes and the order the standard gives |
| builder, DTD parser, encodings, HTML, serializers, schema parsers, resolvers, registries, locks, C shims | see section 7 | | |

**Interactions.** Every document-building parse goes through the byte reader:
directly, through the `&str` reader, or over the rolling buffer. The
builder (`parser.rs`) keeps its own stack of open elements and trusts the events
to nest. Names are interned in the dictionary of the thread (`compat`) or of the
document. A document, its arena, the dictionary and the thread-local lists hold
each other by counted references. C programs (lxml above all) write node
pointers themselves between two calls, which is why the arena of a node is passed
along in thread-local slots. The push parser parses its buffer again at each feed and
skips the events it already delivered. Callbacks may call back into the library.
The pull consumers share one stream of events; what the writer stages, a reader
reads back; validators move a cursor at each event; XPath is called by patterns, identity
constraints and every instruction of a stylesheet.

**What is hard.** Threads interleave in the interner, which walks up a chain of
dicts without a lock on it, and in its release, which cascades. Threads exit while
documents they made live on elsewhere. Five pointers per node are written one by one by
some twenty entry points. The reader keeps depth, element stack, stream stack and
pending event in separate statements, over repairs of broken markup and over
streams that end inside text or between events. A refill moves the bytes under
offsets noted before. Callbacks free what their caller is working on. An end of
a tag, a byte order mark, a namespace declaration is owed by one call and paid
by another. Errors leave a function between a save and its restore. Validators
decide at a start tag what they must remember for an end tag. Scratch memory
and numbers are reused. And many fast paths – hoisted comparisons, upward
matching, greedy content models, copied loops – claim to decide what a slow
definition decides. `PROJECT.json` (`hazards`) lists these at their lines, with
the properties that cover them or the reason none does. A hazard whose failing case the code
really meets says so in its note: the property then leaves that case out, and section 6 shows it.
The parent of a dict is set once, when the dict is made, so the walks up the chain end by construction:
`CallsReturn` says that each call returns, its cascade included, however the threads interleave, and stands for no hazard.

## 2. The modules

| module | models |
|---|---|
| `Dict` | the interner at the grain of critical sections and atomic instructions |
| `Graft` | who holds each arena and dictionary while nodes move between documents and threads |
| `DomTree`, `Forest` | the pointers of the tree and the calls that relink it; the promise to the caller, ordered lists of children, which `DomTree` refines |
| `XmlBytesReader`, `XmlGrammar` | `next()` over tokens, strict and in recovery, with entity streams; well-formedness without a reader, its reference |
| `XmlByteStreamReader` | the byte reader over a refilled buffer |
| `PushParser` | chunked parsing with re-entrant callbacks, and the replay of SAX events |
| `SubtreeStream`, `Iterparse`, `Selector` | the pull consumers; `StreamConsumers` feeds them one stream of events |
| `XmlWriter`, `TextReader` | output buffers, writing and walking; `WriterReader` writes a document, closes it and walks what arrived |
| `Language` | particles, and the reference for everything that decides a language |
| `Regex` | character classes, compiler, simulator and fast path |
| `DtdContent`, `XsdDfa`, `RelaxNg` | the three validators; `ContentModels` moves them child by child; `MCLanguages` joins it with `Regex` |
| `Canonical`, `Catalog`, `XInclude`, `XsdIdentity`, `XsltCompile`, `XPath` | services without state between two calls; `TreeFunctions` is a caller that asks one of them |
| `XsltRules` | the choice of a template rule, used by `XsltCompile` and `XsltContext` |
| `XsltContext` | what a running stylesheet saves and restores |
| `…_proofs` | theorems about the module of that name; `Documents_proofs` about `Canonical` and `StreamConsumers` (section 5) |
| `MC…` | instances for TLC, with the bounded sets of inputs; `MCDict.cfg`, `MCGraft.cfg`, `MCWriterReader.cfg` instantiate the component's own module |

Operators with the name of the next one and a suffix (`SubRefsNoParent` above
`SubRefs`) are altered forms: the same step with a plausible slip. No
specification uses them; `PROJECT.json` (`mutants`) pairs each checked property with one,
and under it TLC finds that property violated.

Each component has one type invariant; where it says something that the other
parts of a structural invariant rest on, it is a conjunct of that invariant:
`TypeOK` is part of `LinksOK`, `GraftedOnceLives`, `EventsNest` and `MemoryBounded`.

### Dict

A *slot* owns one reference: a document, a context, a handle of the C program, a
thread's default. A call goes through a slot that is not released meanwhile, as the
C contract demands. `FetchSub` is the `fetch_sub` of `Dict::release`, `DropBox` the
free it leads to, after which the thread goes on with the parent – by now other
threads may have added or dropped references there. `Probe` is one turn of
`ancestor_lookup`; `InternLocal` the second look and the insertion under the
dict's own lock. Bytes are abstracted to names, addresses are not reused.

### Graft

A document and its arena have one name, a thread and its dictionary too. `ArenaHolders`
lists the places that own a clone of an arena's `Arc`. The calls that link nodes
pin the origin arena as the code does: `RetainGraft` in `AddChild`, `AddSibling`
and `Replace`, nothing in `SetRoot`. A move as lxml makes it is several steps, because
it is several calls: `Unlink` stashes the arena, `MoveBegin` is lxml's own pointer
writes (external), `MoveOwns` and `MoveLookup` re-intern the names node by
node and pin on the way. Threads exit and documents are made in between. That dictionary
references are counted exactly is taken from `Dict` (`RefcountExact`). Two variables are auxiliary, for the properties:
`route` says by which call it came under its document, `crossed` holds the nodes that a call of the
library took to a place with another dictionary, and those that came to hang below or beside one.
`NamesLive` speaks of the nodes that are not in `crossed`; that a name follows its node also for a
node grafted *below* a crossed one is not so, which three nodes show and two do not.

### DomTree and Forest

A tree is a record of five maps, and each helper of `mutate.rs` an operator from
trees to trees. The actions compose helpers in the order of the code, which
matters: the sibling calls detach the node first and then read the links of the anchor. Loops along
`next` and down the tree are written as closures: `Run(t, n)` is what a walk from `n` meets, `TailOf` the member of
it without a next, `DetachRun` the loop of `xmlFreeNodeList` that detaches one after the other.

`Forest` has no pointers: each thing has a set of children, each node the set of siblings further on (`after`), and a call
moves one node (`Put`), takes out or gives back some, or puts one in place of another. `ChildrenOf` and `AfterOf`
read the two sets off the pointers, as a caller does that walks from `first` along `next`; with them every call of
`DomTree` is a step of `Forest` (`ForestPromise`). Text coalescing, attributes and namespaces are left out.

### XmlBytesReader and XmlGrammar

A document is a sequence of tokens, an entity a replacement text of tokens, read at once or (external)
when first referred to. One call of `next()` is one action; each turn of the loop
that expands references inside text, each stream popped between events, and each
token dropped silently are actions of their own; a token is a record whose fields its kind decides (`Token`). `event` and `open` are what the builder sees. In recovery, the repairs of
the code are actions: an end tag that names an outer element closes the inner one
and is read again (`EndMismatched` rewinds), an orphan closes or is dropped, `UnclosedAtEof` closes the
rest. `XmlGrammar` states by counting starts and ends when a document is
well-formed; it has no stack and no streams.

### XmlByteStreamReader

Here documents are bytes, each knowing its token and place in it; `next()` is
reduced to what it does with cursor and buffer. `KeepBuffer`, `Compact` and
`ReadChunk` are `ensure_runway`: is there enough ahead, drain what is read, fill up. `Rebind`
hands the moved buffer to the scanner. The `io::Read` returns any number of bytes
or an error. The end of an empty element is queued as an offset and
read back in the next call, after the refill. The end of a token missing from the
buffer is an error, as `next()` cannot be resumed inside a token.

### PushParser

A document is a sequence of marks fine enough that a feed may end inside a tag,
a run of text or a comment; `Tokens` gives the events and the error of every prefix, as each
feed reads the whole buffer again (`Read`, mark by mark, is `InMarkup` or `Characters`). `xmlParseChunk` takes the state out of the map (`push_states`) and builds what
is past the watermark; `Fire` hands the events over one by one. Between two of them
the callback may create, feed, reset or free another context, or free its own, so
calls are a stack (`frames`), and `Return` puts the state back if the one cell `finalizing` still
names the context. A consumer of events is fed as it goes, a plain feed parser at the end
(`Kind`). What SAX callbacks see is a walk of the tree, with the elements still open closed at the end (`Walk`).
`fired` and `fed` are histories: what a consumer was told, and how much it fed before it closed the context.

### Language, Regex

`Language` gives, for an expression and a word, the set of positions where a
match may end, by recursion on the expression, with no automaton. `Regex` has the
class algebra on code points (`Coalesce`, `union`, `subtract`), the Thompson
construction, the lists of threads in order of priority with their marks, the linear fast path
for patterns it accepts, and the iteration that finds the leftmost match, then the next. The
scratch survives from call to call: after `ClassItem`, `CloseClass` and `SubtractClass` have made a class, `IsMatch`, `FindMatch`
and `FindIter` are the calls of one thread.

### DtdContent, XsdDfa, RelaxNg, ContentModels

A particle (in `Language`) is a term with bounds, as all three schema languages have. `Compiled`
translates it to each engine that can express it and to `Language`. `DtdContent` is the
greedy matcher; where the code's loop would not end it says so (`diverges`) instead of looping.
`XsdDfa` builds fragments with entries and exits, copies repeated parts up to the code's
limit, checks UPA on the way as the code does, and has the counters of `xs:all`. `RelaxNg`
compiles to patterns and takes derivatives by text, child and attribute. An action
of `ContentModels` is one child, attribute or run of text.

### SubtreeStream, Iterparse, Selector, StreamConsumers

`StreamConsumers` sends one event after another to both consumers and keeps them as
history. `SubtreeStream` has the namespace frames with the flat list of bindings that
they truncate, the stack of names, the subtree being built and the three emit modes; its
errors leave it between two pushes as in the code. `Iterparse` has frames whose counters are read when a
path is asked for. `match_left` of `Selector` is a function from the parts to the places they may have on the ancestors: what the recursion of the code tries
one after another. The history says which subtrees are to come and under which names.

### XmlWriter, TextReader, WriterReader

`XmlWriter` begins with the output buffer: two stages – raw and encoded –, the count that decides on the byte order
mark, the error flag and the three kinds of destination; a destination may refuse at any flush. Each C call of the writer is a function from
writer to writer. `WriterReader` calls them in any order a
document allows, keeps beside the writer the tree that is meant, closes, parses the
bytes with a parser of its own and gives the tree to `TextReader`, which moves over it by
any sequence of its calls.

### Canonical, Catalog, XInclude, XsdIdentity, XsltRules, XsltCompile, XPath

These are mostly functions, written as operators, each beside a reference that says the same
without the shortcut:

- `Canonical` walks a document with frames; the reference resolves each name in the
  output and in the input.
- `Catalog` loads files with the cut for those being loaded and looks up with the cut for those
  seen; the reference flattens the references in order. An identifier is what the entries make of it.
- `XInclude` has both implementations: the copying walk of `core` with its fields kept across
  failures, and the replacing one of `compat`. The reference is the expansion by substitution.
- `XsdIdentity` reads a document tag by tag: frames, the scopes with their matchers, the depth
  to which content is remembered, key tables and their hand-over. The
  reference evaluates selectors and fields over the tree.
- `XsltCompile` numbers the modules as the compiler does while it includes and imports; `XsltRules` chooses by these
  numbers. The reference is the list of import levels.
- `XPath` numbers the nodes as the index does, walks the axes in the order of the code, applies
  predicates with the shortcut for `[N]`, and sorts by number. The reference places a node by
  the path of positions from the root and defines the axes by prefix and order of places. Both
  upward matchers – `matches` of XSLT, `run_from` of xmlPattern – are compared with
  the paths that find the node looking down.
  Predicates on sequences, too: item by item, and the set made once. The reference asks each item.

### XsltContext

A stylesheet is any sequence of the instructions its templates allow, so the model is
a stack of bodies: `Enter`, `ApplyTemplates`, `AnotherRule` and `Call` save and set, `NextItem` goes on in a loop, `Leave` restores;
after `Raise`, `Unwind` leaves bodies as `?` does, past the restores that it skips, until `Catch`. Each entry also keeps what that body must
see (`mine`), which is what the properties compare. The choice of rules is `XsltRules`'; the templates are a
constant that is any compiled stylesheet (`XsltAssumption`), and `MCXsltContext` compiles one with `XsltCompile`.

## 3. The runs

Times are about two and a half minutes at most with two workers. In each run but `tree_functions`
deadlock checking is off: the programs modelled may stop (nothing left to call, input read).

| run | states | shows |
|---|---|---|
| `dict_safety` | 210 886 | counters exact at every instant, no use of a freed dict, handed pointers live and owned, walks miss nothing that was there, root pointers stable, no leak, every call returns |
| `graft_safety` | 262 347 | nodes in place or grafted once lie in live memory, moved names too, no arena comes back from the dead |
| `dom_tree` | 5 163 | links are mutual, ends agree, nothing points at freed nodes, every child is on the list; `DomTree` refines `Forest`; putting a node where it is changes nothing |
| `reader_events` | 271 381 | depth and stack agree, events nest, elements end in the text they began in, work within the budget, silence exactly for well-formed input, always an end |
| `stream_events` | 645 893 | same events as over the whole input whatever the reads, bounded buffer, nothing skipped, always an end |
| `push_events` | 1 268 443 | events once, in order, all of them when the document is closed, no valid document refused; fired is what the tree has; a freed context stays gone |
| `languages` | 286 225 | the regex engine decides exactly, with any scratch; so do the DTD, XSD and RELAX NG matchers where the code promises it |
| `stream_consumers` | 1 170 135 | what is emitted is the subtree, with its namespaces, and refused exactly when it has none; paths and selectors name the element |
| `writer_reader` | 1 094 307 | the bytes are the document the calls describe, with one byte order mark; the walk visits it in order |
| `tree_functions` | 2 061 198 | canonical declarations, catalog lookups, XInclude, identity constraints, template rules, XPath: the shortcut is the definition |
| `xslt_context` | 2 052 981 | every body finds its context again; calls that are not counted stay bounded by those that are |
| `xslt_scope` | violated | a called template sees the variables of its callers (section 6) |

A property that says "the code decides what the definition decides" is a
conjunction of what its engine promises, by name: `RegexDecides` of `ClassExact`,
`IsMatchDecides`, `SearchFindsLeftmost`; `EventsDelivered` of `DeliveredInOrder`,
`ClosedDelivered`, `ValidNeverMistaken`; `StreamParserExact` of `EmittedIsSubtree`,
`RefusedIffWrong`; `PlacesRight` of `PathNamesElement`, `SelectorFindsEmbedding`;
`DeclarationsRight` of `MeaningKept`, `NothingRepeated`; `XIncludeRight` of
`XIncludeIsExpansion`, `InPlaceAgrees`; `IdentityRight` of `KeysDecided`,
`AmbiguityTold`, `AssertsSeeAll`; `XPathRight` of `PathsRight`, `PatternsRight`, `FilterRight`.

**Bounds, and why they are enough.**

- *Dict*: two threads, three slots, two dicts, one name, two buffers. A sub-dict and its parent
  make a chain, so a release cascades while the other thread uses the parent;
  names do not interact, and two threads race for one. The proofs
  (section 5) remove the bounds for most of these properties.
- *Graft*: two threads, two documents, three nodes, `MaxCalls = 3` tree and
  dictionary calls; creation, freeing and thread exit are not counted. Two nodes make a subtree, the third
  comes to hang below or beside what was moved; two documents are an origin and a destination. Stash and re-intern
  of a move, and a graft onto it, fit in three calls. The proofs remove the bounds.
- *DomTree*: three elements and two texts. Anchor, neighbour and moved node are then distinct, and may
  lie on two levels. Nodes are used once, so behaviours are finite.
- *XmlBytesReader*: every document of up to five structure tokens over two names,
  of up to three with the remaining kinds, and references to two entities with texts
  of up to two tokens (nested, recursive, undeclared, external). Five tokens hold
  an element, a mismatch in it and what recovery does next; with budget 5 and depth 4 both
  limits are reached. Initial states are all documents: 47 487.
- *XmlByteStreamReader*: `BufferSize` 4, hence capacity 8, and documents of up to three parts in a root, with
  comments and a blank around: from below the buffer to three times it. Texts
  up to 20 characters. Size hints 0, 5 and none. Reads return every count.
  A comment of 6 is larger than is promised to fit.
- *PushParser*: three contexts – a document with text, blanks, nested elements and a comment after the root, one with a
  mismatched end, one for callbacks to use – and seven calls, feeds cut at every mark. Two
  calls in progress and a third context freed or fed below them need five.
- *Regex*: code points 0 to 5 with one surrogate, classes of up to two items, ten templates of patterns around the
  class, inputs of up to two characters, two calls: the second finds the first one's scratch.
- *Content models*: about 1 700 particles – two parts with every bound, groups in groups, `all` of three, text and attributes
  between – against every word of three or four children. Bounds up to 2 reach each copy loop; the code's limits (128 copies,
  8 of a repeated one) are constants of the model and stay above it.
- *Consumers*: up to six events, depth four, eight start tags that shadow, redeclare, miss and clash, three
  emit modes, two selectors. An emission then begins below two declaring ancestors.
- *Writer and reader*: up to five calls, three destinations, two encoders, two attributes; trees of up to four nodes, walked to the end.
- *Canonical*: depth four, at most one declaration per element, two prefixes and two URIs: a prefix may be declared,
  overridden and come back, with one level to spare.
- *Catalogs*: three files that refer to each other in every way, one file with three entries, two roots.
- *XInclude*: two resources, up to two includes in each, with fallbacks that include; both limits are reached.
- *XSD identity*: seven schemas, one for each mechanism, with every document of four to seven elements.
- *XSLT rules*: three modules of up to three, two and one declarations, two nodes.
- *XPath*: three documents; every axis with four node tests and nine predicates, two- and three-step paths, filters and unions,
  from every node; patterns of up to three steps; item sequences of up to two against
  right-hand sides of up to two. A wrong axis order shows with two nodes and one position.
- *XsltContext*: a stack of five bodies, of which two are not templates, one caught error, a call limit of two, two import
  levels, so that next-match and apply-imports have somewhere to go.

`SameAsWhole` has a precondition, `Fits`: each stretch that one call must see whole is
at most `BufferSize` long, and no event refers back across calls. Without it the
property is false, as the documentation of the reader concedes for long tokens; its first part
drops the precondition and says what is left: a beginning of the document, never a gap.
`EventsNest` allows an end event without a name, or with a wrong one, for what was read
from a replacement text. `DtdDecides` is about deterministic models where nothing empty is tried first, `XsdDecides` about models that respect UPA and
repeat no group from a minimum of 2 on, `RngDecides` about one run of text per element, `RulesInOrder` about stylesheets where no included module
imports, `DeclarationsRight` about prefixes that do not return to an earlier URI, `PatternsRight` about
patterns where no way back is needed, `FilterRight` about items of one kind. Each of
these is where section 6 records what the code does otherwise.

## 4. Fairness

- *Dict*: `WF_vars(Step(t))` for each thread: one inside a call keeps running. Its steps
  never wait (a mutex is held for one probe). Nothing forces a thread to begin a call.
- *XmlBytesReader*: `WF_vars(Next)`: the caller goes on calling `next()`, as every parser loop does.
- *XmlByteStreamReader*: `WF_vars(Advance)`: reads return and the caller goes on. A
  failing read is possible at any time and never required.

The other specifications state safety only: their actions are calls that nobody
is obliged to make, and each call is one step or a bounded number of them.

## 5. The proofs

Everything here holds for any values of the constants that satisfy the assumption named, which says what
the code's types say (finite sets of nodes, `NULL` none of them, limits that are numbers, entities that
are texts of tokens), and of the streaming reader's documents that they are well-formed (`InTokens`, `Nested`). TLC evaluates each assumption in the run of its module.

| module | theorem | states | assumption |
|---|---|---|---|
| `Dict_proofs` | `TypeCorrect` | `TypeOK` | `ConstantsAssumption` |
| | `RefcountIsExact`, `NoDictUsedAfterFree` | `RefcountExact`, `NoUseAfterFree` | |
| | `HandedPointersLive`, `RootPointersStable` | `HandedLive`, `RootPointerStable` | |
| | `WalksAreComplete`, `NothingLeaks` | `WalksMissNothing`, `NoLeak` | |
| `Graft_proofs` | `GraftsLive`, `NamesStayLive` | `GraftedOnceLives`, `NamesLive` | `GraftAssumption` |
| | `FreedIsFreed` | `NeverRevived` (of steps) | |
| `DomTree_proofs` | `LinksAgree` | `LinksOK` | `DomAssumption` |
| | `RepeatedCallsKeepTheTree` | `InPlaceUnchanged` (of steps) | |
| | `TreeIsTheForest` | `ForestPromise`: `DomTree` refines `Forest` | |
| | `SiblingsAreOrdered` | the lists it refines to are linear orders, disjoint | |
| `XmlBytesReader_proofs` | `EventsAlwaysNest` | `EventsNest` | `ReaderAssumption` |
| | `TextsAreBalanced`, `ExpansionIsBounded` | `ElementsStayInTheirText`, `WorkBounded` | |
| `XmlByteStreamReader_proofs` | `BufferIsBounded` | `MemoryBounded` | `StreamAssumption` |
| | `EventsAreTheWhole` | `SameAsWhole` | |
| `PushParser_proofs` | `FreedNeverReturns` | `FreedStaysGone` | `PushAssumption` |
| | `StatesAreHeldOnce` | a context's state is in the map or with one call, never both | |
| | `EventsAreDelivered` | `EventsDelivered` | and `~Recover`, `~NoBlanks` |
| | `TheTreeIsWhatWasFired` | `FiredIsTheTree` | and `~Recover`, `~NoBlanks` |
| `Documents_proofs` | `DeclarationsAreRight` | `DeclarationsRight` | `CanonicalAssumption` |
| | `PlacesAreRight` | `PlacesRight` | `ConsumersAssumption` |
| `XsltContext_proofs` | `ContextIsRestored`, `RecursionIsBounded` | `ContextRestored`, `RecursionBounded` | `XsltAssumption` |
| | `ConflictsResolve` | the template chosen is the one first of all; `next-match` goes strictly down | |

`TypeCorrect`, `StatesAreHeldOnce`, `ConflictsResolve` and `SiblingsAreOrdered` are results no run states.
No safety invariant above is inductive. What each was strengthened to:

**Dict.** That the counter is exact does not survive a step unless whoever gives a reference back gives it to a
live dict; that the chain above a dict is live does not survive a drop unless the counter is exact. `IInv` joins
`TypeOK` and `RefcountExact` with `OwnersLive` (slots, sub-dicts and pending releases own live dicts), `DropsAlone` (a dict
being dropped has counter 0 and one dropper), `ChainOK` (the chain is closed under parent, and a live dict has a live
one), `ProbesInChain`, `BuffersOK`, `HandedInChain`. In a drop everything meets: the counter is 0, so by `RefcountExact`
nobody owns the dict; a call still probing it would be on its slot's dict (excluded) or further up, and then
the next one down its chain is live and a sub-dict of the dropped one (excluded). `WalkInv` adds what a walk has left
behind and has still ahead of it. A leak would be a live dict kept by a sub-dict, kept by another: among finitely many
one has the longest chain, and nothing keeps it.

**Graft.** `GInv` joins the type with `MadeOK` (what a node refers to was made), `KeepOK` (a running
thread keeps the arenas it made), `MoveOK` (what holds while a move is half done), `NameOK` and `CrossOK` (a node that did not cross has its name
in the dictionary of its document, or, not yet visited, in the one it comes from, and its parent did not cross either) and
`RouteOK` (where a native node and one grafted once stand, and who pins its arena, or will at the first name that
the move looks up). All speak of a node and its parent, so a step that moves a subtree disturbs them only at the
moved node; the lemmas on `Below` carry that down. That no arena comes back is a property of holders: only who has a clone gives one.

**DomTree.** A call is a composition of operators, so the invariant is stated of *any* tree `t` with nodes `L` in use and `G`
given back: `Good(t, L, G)` is the type, `MutualAt` (links answer), `LooseAt` (nothing points at nodes given back), `EndsAt`
(first and last), `ListedAt` (every child is on the walk from the first), `AcyclicAt` and `FreshAt` (nodes not made have no links).
There is one lemma per helper (`DetachGood`, `InsertGood`, which covers append, link after and link before as fillings of a *gap*, `CutGood`, …), and
the actions compose them. `Swap` is proved to be link-after followed by detach, `RootTree` to be a swap or an append.

For the refinement the walks are sets closed under `next`, so no induction is needed: two walks are equal
when each is closed in the other. The lemmas say what a helper does to every walk (`DetachRuns`: `c` leaves all of them;
`InsertRuns`: `c` joins those that cross the gap; `CutRuns`), then to `ChildrenOf` and `AfterOf`, and each call is matched
with the action of `Forest` of the same meaning; `NextPromise` has one step per call. `RunOrder` shows that of two siblings one
is met from the other and not the other way round, from which the order of `Forest`'s lists follows.

**XmlBytesReader.** `IInv` joins `RestOK` (the type of what the other parts do not mention), `StreamsOK` (positions are inside their
texts), `FramesOK` (each open element notes the text it began in, in the order of the texts, and a text its elements), `NestOK` (depth, stack and the
queued event agree with what the caller was told) and `SpentOK`. An action is classed by its effect on the texts (same,
moved, pushed, popped) and by the event it tells, and the lemmas are about the classes. The work bound needs a
measure: with `Paid(C)`, what is read of replacement texts and what the stack of texts has left (`C`) was
paid for when they were pushed.

**XmlByteStreamReader.** `MemoryBounded` is nearly inductive; what it needs is that no token is taken past the end of the
buffer (`TokenInBuffer`), and that `depth` is a saturating subtraction (`Monus`) that never leaves the numbers.

`SameAsWhole` needs two more invariants, one for each half. `SaidOK`: the cursor is at the end of a token, and what was said is
what the document says up to there (`Told`, the history of its bytes), but for what a replacement text has left (`Rest`).
`SeenOK`: `depth` is the difference of the counts of tags up to the cursor, and while `next()` runs there is a place `s` at
which the buffer was full or the input at its end, with nothing between `s` and the cursor that `next()` does not pass in
one call (`Since`). So what is found cut lies, with all that precedes it from `s` on, in one stretch; as that is shorter than the buffer held
at `s`, it is not cut (`FitsToken`), and blanks that end with the buffer end with the document (`FitsEnd`).

**PushParser.** `HeldOnce` and `FinalizingOK` (the one cell names at most the context of the innermost call, and one that
lives) carry `FreedStaysGone`: a return that puts a state back puts back that of a living context, or that of
none. Every action pushes a call, pops one, or keeps them.

`EventsDelivered` and `FiredIsTheTree` need what the parser computes. Both options are hypotheses because with either the
properties are false (section 6). The argument has four layers.
*The tokenizer.* `LexOK` relates its stack to the events it told (`Nests`: each end tag names the element on top), and one mark
keeps what it said or lets the text under way grow (`Goes`). `FoldLeft` is a choice of a function on sets of positions;
`ReadFolds` shows that it is what reading mark by mark gives, and `LexedOnce` and `TokensGrow` follow by `LeastFalse`: the
events of a prefix of the marks are `Delivers`-below those of a longer one, and a mismatch is for good.
*The tree.* `Grown(c, st, n)`: the nodes of the persistent tree are position by position the events of the `n` marks fed, the last
text perhaps shorter, and `open_stack` is the stack of the *whole* document after that many events (`StackOf`). Hence popping
"whatever is on top" pops the right element although the prefix was tokenized anew (`GrowBuilds`, `BuildsPrefix`).
*The calls.* `StateOK(c, st, n, f)`: the watermark is the length of the tree and `f`, what was fired or is queued, is what the tree
shows. A feed keeps it (`Feeds`), and the work of a call appends to `f` what it built (`Works`).
*The steps.* `DInv` says `StateOK` of the states in the map with `f` the events fired, and of those in frames with
the queue appended; that the flags of a context agree with its state; and that a call before its first callback is the
innermost one, with `finalizing` still its own (`BeganOK`). The last is what `ValidNeverMistaken` needs: a context that closed badly
has no callback in which it could be freed, so its state is put back. `Returns` uses it.
TLC checked `DInv` on every state of the run before it was proved.

**Canonical.** `WrittenOver(frames)`: each frame was written when the frames above it were the ones they are now. The theorem is
about `CanonicalSpec`, the walk of one document; the run `tree_functions` reaches it through `TreeFunctions`, which uses
recursive operators and so cannot be proved about.

**StreamConsumers.** `PlacesInv` is stated of the history. `EventsOK` and `Lineage` say that it is a document: the chain of an event is,
prefix by prefix, the chain of the elements on it, and there is one root. `FramesOK` says that the counter of an open element
for a name holds as many children of that name as the history has given it, and that no open element has a younger sibling: so the
counter read late still counts the element the path goes through, and there is no stale index (`PathIsAsked`). `ItemsOK` says that the
items are the paths the history gives (`PathOf`, which later events do not change). That two elements never share a path follows from `PathOf` alone,
from the root downwards by `LeastFalse`: of two children of one element with one name the later has more elder siblings (`CountedApart`). The counters are numbers
without end in the model and `u32` in the code. For the selectors, `NextLays` says how a placing of the first parts grows by one part,
and `LeftLays` that the function of `match_left` is that at every part. `StreamParser`'s half of the module has no theorem.

**XsltContext.** The invariant relates each activation to the one below: what it saved is what that one must see, the
variable frames are as deep as it found them, levels and counts agree (`SavedOK`, `FramesOK`, `LevelOK`, joined in `Good`).
An action pushes an activation, pops one or changes the top one. For `RecursionBounded` a second invariant, `RInv`, is about
the rules of adjacent activations: `apply-imports` keeps the node and goes to a strictly lower import level, everything
else is counted or clears the rule. So a run of uncounted activations is as short as there are levels; the
proof takes a least counterexample. `ConflictsResolve` shows that precedence, priority and place in
the source make a linear order, so that the choice in `select_template` has exactly one outcome.

Three things came out of the proofs rather than of the runs. `NamesLive` as first stated was false with three nodes (the run had two).
The cases of `Setting` in `XsltContext`, of `Piece` in `XmlByteStreamReader` and of `Read` in `PushParser` overlapped, so that their values were a choice.
And `ClosedDelivered` held a context to what was fed after its close as well: a comment after the root that comes with a call too
many is appended to the buffer and never parsed (the run had no such document, and has one now).

**Model-checked only.** `StreamParserExact`, `WritesWhatWasCalled`,
`WalksInOrder`, `CatalogFirstMatch`, `XIncludeRight`, `IdentityRight`, `RulesInOrder`, `XPathRight`, `RegexDecides`, `DtdDecides`, `XsdDecides`,
`RngDecides`, `VerdictIsTheGrammars`, and the liveness properties `CallsReturn`, `ReadsToTheEnd`, `ReadsAll`. The reasons:

- *Liveness* under fairness and `ENABLED` are out of the prover's reach.
- *Induction over data*: what a function on sequences or trees computes for every input (the bytes of
  a call, the verdict on a word) cannot be proved by the induction theorems, which take an operator. The least-number principle
  (`NatLessThanWellFounded`, `WFMin`), which takes a set, is used in its place where a number is at hand: so `SameAsWhole`
  gets what a whole document says from `LeastFalse`, and `EventsDelivered` what a prefix of a document tells. The others
  compute on trees and words, use `SelectSeq`, which the provers know nothing of, or recurse.
- *`RECURSIVE` operators* are in `Language`, the validators, `Catalog`, `XInclude`, `XsdIdentity`, `XsltCompile`, `XPath` and the modules that use them.

## 6. Where code and comments disagree

One is a run: **`xslt_scope`** (under `findings`). "Variables are visible … through the rest of their
containing element" (`xslt/eval.rs:1738`), but a lookup walks all frames of the stack, the callers' too:
a called template finds a variable of its caller where the stylesheet has none.

Each of the others is a property of the module, with the claim quoted above it. To see
one fail, add it to the configuration of its run (`INVARIANT`, or `PROPERTY` where it
speaks of steps), with the constants given here changed.

| configuration | property | what it shows |
|---|---|---|
| `Dict` | `PointerStable` | `intern` asks the ancestors first: a sub-dict that interned a name gets another pointer once its parent interns it (`tree/dict.rs:261`); the header promises the same pointer |
| | `LookupSharesAncestor` (step) | `lookup` answers from the local table before the parents' (`tree/dict.rs:301`), against the field comment |
| `Graft` (`MCGraft.cfg`) | `SameThreadGraftLives` | same-thread grafts pin nothing, and the keep-alive list dies with the thread while the document may live on (`mutate.rs:131`) |
| | `CrossThreadGraftLives` with `Docs = {d1, d2, d3}`, `Nodes = {n1}` | a graft pins the arena of the document the node *points at*; a node grafted before, inside its thread, lies in another one (`mutate.rs:134`) |
| | `CrossThreadRootLives` | `xmlDocSetRootElement` pins nothing (`mutate.rs:247`) |
| | `SubtreeRetagged` | `xmlAddChild` retags the top node only; `doc` pointers below go stale (`mutate.rs:1571`) |
| | `GraftedNamesLive` | the pin keeps the node's arena and not the dictionary of its name (`mutate.rs:1560`) |
| `MCDomTree`, `SPECIFICATION SpecLooseSiblings` | `UnlinkedForGood` | siblings linked without a parent keep pointing at an unlinked one (`mutate.rs:1929`) |
| | `LastOfDocument` | with a detached anchor `xmlAddNextSibling` overwrites the document's `last` (`mutate.rs:1638`) |
| `MCDomTree`, `SPECIFICATION SpecLooseRoot` | `OldRootDetached` (step) | `xmlDocSetRootElement` clears the links of the old root, not those its siblings hold to it (`mutate.rs:227`) |
| `MCXmlBytesReader` | `CleanCloseOut` | in recovery, a mismatched end tag lowers `depth` twice: `<a><a></b>` reaches Eof with the outer `a` open (`xml_bytes_reader.rs:4206`) |
| | `EndNamesItsElement` | an empty element inside a replacement text: the end event's name is cut out of the source at offsets of another text (`:4067`) |
| | `SpuriousEndDiscarded` (step) | an end tag open nowhere closes the innermost element instead of being discarded (`:4266`) |
| `MCXmlByteStreamReader` | `NamesSurviveCompaction` (step) | start-tag names are owned because the buffer moves, the queued end of an empty element is a byte range all the same (`streaming_reader.rs:306`) |
| `MCPushParser`, `MaxCalls = 5` | `LiveKeepsState` | a callback that feeds another context resets `finalizing`, and the outer call drops the state of a context nobody freed (`pushparse.rs:557`) |
| | `TextComplete` | a run of text cut by a feed counts as delivered; its rest is skipped (`pushincr.rs:211`) |
| | `DeliveredInOrder` with `NoBlanks = TRUE` | blank text is an event or none depending on what follows it, so the index of the later events moves (`xml_bytes_reader.rs:1322`) |
| | `DeliveredInOrder` with `Recover = TRUE` | in recovery a prefix has synthesized end events, which are delivered and then counted again (`pushincr.rs:194`) |
| `MCLanguages` | `LinearDecides` | the linear path takes `a?a` and rejects "a" (`regex/linear.rs:48`) |
| | `SearchFindsLeftmost` with `MaxMark = 5`, `MaxLen = 3`, `MaxItems = 1`, `MaxCalls = 4` | the generation counter laps inside one call and old marks count as new (`regex/vm.rs:244`) |
| | `DtdFindsMatching` | `(a*,b*)*` does not return: an iteration that consumes nothing is repeated (`dtd/validate.rs:229`) |
| | `XsdNeverUnderAccepts` | in `(a{1,2}){2,2}` the loop of the first copy takes the element the second one needs, and `aa` is refused (`xsd/dfa.rs:882`) |
| | `RngTextIsText` | `<text/>` takes one run of text; two, with an interleaved child between, are refused (`relaxng.rs:300`) |
| `MCStreamConsumers`, `KeepGoing = TRUE` | `NoPanic` | a caller that goes on after an error finds the stacks half pushed and meets the panic (`stream_parser.rs:245`) |
| `WriterReader` | `StringsLiveToRead` (step) | moving to an attribute frees the strings handed out, which should live until the next `Read` (`compat/reader.rs:849`) |
| | `ReadAdvances` (step) | `Read` with the cursor on an attribute ends the walk (`compat/reader.rs:475`) |
| | `DepthIsNesting` | at the end of an element the element itself counts (`compat/reader.rs:754`) |
| `MCTreeFunctions` | `CanonicalMeaning` | `p:a` = 1, in it `p` = 2, in it `p` = 1: the innermost declaration is left out, as 1 "was rendered above" (`canonical.rs:255`) |
| | `UndeclaresOnlyDefault` | a prefix of the PrefixList that is not in scope is written as `xmlns:p=""` |
| | `CatalogScopes` | the `prefer` of the first file carries over to the next one (`catalog.rs:324`) |
| | `FlagsProcessTheRoot` | `xmlXIncludeProcessFlags` starts at the document's first node, which a comment before the root makes another one (`compat/xinclude.rs:72`) |
| | `RulesAsImported` | an included module that imports: its precedence numbers are given out a second time (`compiler.rs:2750`) |
| | `AssertsSeeEverything` | children are moved to the parent's memory before the assertions read them (`xsd/validate.rs:1148`, `:1355`); nothing is remembered in skipped parts |
| | `OuterKeysFound` | the keyrefs of an inner scope are decided when it ends, against the outer keys met so far (`xsd/validate.rs:2559`) |
| | `PatternsMatchPaths` | an xmlPattern with `/` left of `//` tries the nearest ancestor that fits and no other: `a/b//c`, `/a//b` (`xpath/pattern.rs:214`) |
| | `MembershipIsComparison` | the hoisted comparison reads `!=` against several values as "not a member", drops a text against integers, evaluates `position()` once, and forgets the collation (`xpath/eval.rs:12108`) |
| `MCXsltContext` | `TryRestores` | a caught error leaves `for-each`, groups and with-params without putting the current node, rule, group and tunnel parameters back (`xslt/eval.rs:4958`; the comments at `:3053`, `:3771`) |

Met while modelling, and not modelled or reduced to an outcome:

- *Streaming reader*: a refill while a replacement text with tags is open overwrites that text's cursor
  (outcome `clobbered`), though a comment says no entity stream is active between events; a reference cut at the end of the
  buffer is an error, also in text whose characters could have been cut there (`CutReference`); white space between
  constructs that fills the buffer reads as Eof (`EndOfBuffer`); after an I/O error the scanner is left on the moved
  buffer; characters are validated over the first buffer only, and `read_chunk` does not
  validate UTF-8 as its comment says; a size hint of 0 primes nothing, so the byte-order mark is not seen.
- *Content models*: copies of a wildcard in a repeated group raise spurious UPA errors; UPA is not enforced
  where a loop returns (`dfa.rs:25`); `xs:all` takes an earlier wildcard before a later named element; the RELAX NG
  residual doubles with each child on nested repetitions (`relaxng.rs:119`, `:283`).
- *Writer and buffers*: a short write of a callback counts as complete (`outbuf.rs:347`); a character split
  over two writes is dropped (`outbuf.rs:774`); `StartDocument` writes `UTF-8` whatever the encoder; an attribute left
  open at `StartElement` or `EndElement` gives malformed output; `StartDTD` never writes ` [`; `Close` drops errors.
- *xmlTextReader*: a name asked for before the first `Read` follows a null node; `ReadAttributeValue` returns 0 where its doc says 1.
- *XInclude in place*: an include that is the root of a resource or a direct child of a fallback always fails; other values of `parse`
  are read as `xml`; cycles are met by the depth of 40 only; after a failure the includes before it stay replaced.
- *Catalogs, canonical XML*: files that refer to common ones are loaded once per path; a
  subtree in exclusive mode whose prefix is declared above it is written with `xmlns:p=""`.
- *Identity constraints*: a field step with two matching children is ambiguous even if one of them leads nowhere; of
  a union in a field the first branch wins; `.//.` selects the declaring element only; which
  key values are made canonical depends on the scopes open; defaults of empty elements are no key values.
- *XSLT*: a result tree stored under the name of a caller's variable is copied instead of the callee's
  value, and a callee's own removes it (`xslt/eval.rs:5118`, `:8251`); a call may run the template of a lower
  precedence when an included module imports.
- *xmlPattern*: positions count among siblings of the same name also for `*[N]`, and two predicates on a step do not renumber.

## 7. What is not modelled

`PROJECT.json` (`components`) lists every part with its reason. By size, most of the code that is
not modelled is evaluation without state between two calls: the functions, operators
and types of XPath and XSLT (most of `xpath/eval.rs`, `xslt/eval.rs` and
`compiler.rs` is one branch per function, attribute or instruction), the schema parsers, the facets of the simple types,
HTML tree construction, encodings, number and date formatting, serialization. For these a
model would be the table itself written a second time, and a test with table data
reaches each row. The other part is C shims that copy fields between structures.

Left out of modelled components:

- *Byte reader*: the prolog and DTD subset parsers, attributes, names, character and line-end rules, in-place decoding;
  the options `skip_end_tag_check`, `skip_entity_expansion`,
  `skip_inter_element_whitespace`, `stream_owned_names`, `libxml2_compat` have their defaults.
- *Tree calls*: attributes, namespaces, copies, text coalescing.
- *Push parser*: encodings, DTD defaults, the HTML variant, the arguments of SAX callbacks.
- *Regex*: the concrete syntax, the Unicode tables, the cache of compiled patterns.
- *Content models*: mixed and ANY content, attributes and IDs of DTDs; types, xsi:type and xsi:nil of XSD; datatypes,
  values, lists and recursion through named definitions of RELAX NG.
- *Writer and reader*: document types, `xmlBuffer`, encoder tables, opening from files, schema and parser properties.
- *XInclude, catalogs*: xpointer, relative references; normalization of public identifiers.
- *XPath, XSLT*: names with namespaces, functions, variables and the step budget of XPath; the result tree, sorting, keys,
  accumulators, packages and result-tree fragments by name of XSLT.

## 8. Plan

1. *Done*: memory shared between threads and documents (`Dict` with proofs, `Graft`), the tree (`DomTree` against
   `Forest`), the readers, the push parser, the consumers, writer and reader, everything that decides a language,
   the tree services, identity constraints, template rules, paths and patterns, and the execution context of XSLT.
2. *Done*: every property that passes of `Graft`, `DomTree` and `XsltContext`, all but liveness of `Dict`, the nesting and the bounds of the readers, the streaming reader's events,
   every property that passes of `PushParser`, canonical declarations, paths and selectors (section 5). Next: `WalksInOrder` of `TextReader`.
3. `AllocRegistry` and `SpinLock`: addresses reused by the allocator, two threads; exclusion and its discipline.
4. `InputCallbacks` and the resolver cache: the two-step clear while another thread asks.
5. XSLT: the loader's import cycles, sorting and numbering against reference definitions, result-tree fragments by name;
   XPath: functions with state (keys, `position` in nested calls) and the step budget.
6. `DomTree` with attributes, IDs and namespaces.
