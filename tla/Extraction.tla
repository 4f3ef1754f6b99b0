------------------------------ MODULE Extraction ------------------------------
(***************************************************************************)
(* What the parsers make of a page: which elements the honeypot guard lets *)
(* through (worker/scraping/security/honeypot_guard.py), which record or   *)
(* records the extractor reads off them (parsers/extractor.py), and what   *)
(* each parser then says of the task (static_css_parse.py,                 *)
(* dinamic_parse.py).                                                      *)
(*                                                                         *)
(* A page is its elements in the order of the document.  Each tells which  *)
(* is the last element in it, the selectors it matches and its own words,  *)
(* taken to come before those of the elements in it; 0 stands for the      *)
(* document itself.  A text is a sequence of words.  A value is a scalar,  *)
(* null when it has no text, or a list of texts.                           *)
(***************************************************************************)
EXTENDS Naturals, Sequences, SequencesExt

CONSTANTS
    Nothing,            \* None: no container, no attribute
    HiddenStyles,       \* inline styles one of the patterns finds
    SuspiciousClasses,
    DeadLinks           \* href: missing, "#" or a script

-----------------------------------------------------------------------------

\* The indices of a set in their order: those up to each index, and up to n.
InOrderUpTo(n, S) ==
    LET upto[i \in 0..n] ==
            IF i = 0 THEN <<>>
            ELSE IF i \in S THEN Append(upto[i - 1], i) ELSE upto[i - 1]
    IN  upto

InOrder(n, S) == InOrderUpTo(n, S)[n]

\* An element with all that is in it.
Span(page, i) == IF i = 0 THEN DOMAIN page ELSE i..page[i].last

\* get_text: whether hidden or not, all that is in the element counts.
Text(page, i) ==
    FlattenSeq([n \in DOMAIN page |-> IF n \in Span(page, i) THEN page[n].words ELSE <<>>])

-----------------------------------------------------------------------------
(* HoneypotGuard: it looks at the element itself; of its ancestors it only *)
(* looks for a noscript.                                                   *)

Honeypot(page, i) ==
    LET e == page[i] IN
    \/ e.style \in HiddenStyles
    \/ e.classes \cap SuspiciousClasses # {}
    \/ e.hidden                                \* aria-hidden or tabindex -1
    \/ \E a \in DOMAIN page : a < i /\ i \in Span(page, a) /\ page[a].tag = "noscript"
    \/ e.tag = "a" /\ e.href \in DeadLinks

\* filter_static_elements
Safe(page, es) == {i \in es : ~Honeypot(page, i)}

-----------------------------------------------------------------------------
(* UniversalDOMExtractor.                                                  *)

\* select: the elements in another that match.
Matching(page, i, selector) == {j \in Span(page, i) \ {i} : selector \in page[j].hits}

\* A plausible bug, used as a mutant of Elements: the guard is left out.
ElementsUnguarded(page, i, f) ==
    IF f.selector = "self" THEN <<i>> ELSE InOrder(Len(page), Matching(page, i, f.selector))

\* The elements of a field of a node: the node itself, which no guard sees, or
\* the safe ones in it that match.
Elements(page, i, f) ==
    IF f.selector = "self" THEN <<i>>
    ELSE InOrder(Len(page), Safe(page, Matching(page, i, f.selector)))

\* The text of an element, or its attribute if it has it: the document has none.
ElementValue(page, i, attribute) ==
    IF attribute = Nothing THEN <<Text(page, i)>>
    ELSE IF i # 0 /\ attribute \in DOMAIN page[i].attrs THEN <<page[i].attrs[attribute]>>
    ELSE <<>>

\* A field given as a plain string has many values, except in a collection.
Multiple(f, child) == IF f.plain THEN ~child ELSE f.multiple

FieldValue(page, es, f, child) ==
    LET texts == FlattenSeq([n \in DOMAIN es |-> ElementValue(page, es[n], f.attribute)])
        first == IF es = <<>> THEN <<>> ELSE ElementValue(page, es[1], f.attribute)
    IN  IF Multiple(f, child) THEN [many |-> TRUE, texts |-> texts]
        ELSE [many |-> FALSE, texts |-> IF first = <<>> THEN f.default ELSE first]

Item(page, i, selectors, child) ==
    [name \in DOMAIN selectors |->
       FieldValue(page, Elements(page, i, selectors[name]), selectors[name], child)]

\* extract_from_soup: one item of the whole page, or one of each container,
\* at whatever depth.
Containers(page, container) == Safe(page, {i \in DOMAIN page : container \in page[i].hits})

Extract(page, config) ==
    IF config.container = Nothing
    THEN [list |-> FALSE, items |-> <<Item(page, 0, config.selectors, FALSE)>>]
    ELSE LET found == InOrder(Len(page), Containers(page, config.container)) IN
         [list |-> TRUE,
          items |-> [n \in DOMAIN found |-> Item(page, found[n], config.selectors, TRUE)]]

-----------------------------------------------------------------------------
(* The verdicts.                                                           *)

\* What Python takes for false: null, an empty string, an empty list.
Blank(v) == v.texts = <<>> \/ (~v.many /\ v.texts[1] = <<>>)

BlankItem(item) == \A name \in DOMAIN item : Blank(item[name])

\* The static parser refuses an empty list and a blank single record.
StaticAccepts(x) == IF x.list THEN x.items # <<>> ELSE ~BlankItem(x.items[1])

\* A plausible bug, used as a mutant of DynamicAccepts: any for all.
DynamicAcceptsFull(x) == \A i \in DOMAIN x.items : ~BlankItem(x.items[i])

\* The dynamic parser refuses what holds nothing but blank records.
DynamicAccepts(x) == \E i \in DOMAIN x.items : ~BlankItem(x.items[i])

StaticOutcome(status, x) ==
    CASE status = 404 -> "NOT_FOUND"
      [] status \in {403, 429} -> "BLOCKED"
      [] status >= 400 /\ status \notin {403, 404, 429} -> "SERVER_ERROR"
      [] OTHER -> IF StaticAccepts(x) THEN "data" ELSE "INVALID_SCHEMA"

DynamicOutcome(status, x) ==
    IF status \in {403, 429} THEN "BLOCKED"
    ELSE IF DynamicAccepts(x) THEN "data" ELSE "INVALID_SCHEMA"

-----------------------------------------------------------------------------

CONSTANTS
    Pages,      \* BOUND: the pages, the configurations and the statuses that are
    Configs,    \* looked at
    Statuses

\* What BeautifulSoup makes of any document: elements, one in another.
ASSUME PagesAssumption ==
    \A p \in Pages :
        /\ p \in Seq(Range(p))
        /\ \A i \in DOMAIN p :
              /\ DOMAIN p[i] = {"tag", "style", "classes", "hidden", "href", "hits", "attrs",
                               "words", "last"}
              /\ p[i].last \in i..Len(p)
              /\ \A j \in Span(p, i) : p[j].last <= p[i].last

VARIABLE given  \* what a parser is given of them

\* A parser reads a page.
Read ==
    /\ given = Nothing
    /\ \E p \in Pages, c \in Configs, s \in Statuses :
         given' = [page |-> p, config |-> c, status |-> s]

\* No trap, and in a collection in a container that is none.
Seen(page, config, i) ==
    /\ ~Honeypot(page, i)
    /\ \/ config.container = Nothing
       \/ \E c \in Containers(page, config.container) : i \in Span(page, c)

\* The selectors of a configuration.
Wanted(config) ==
    {config.container} \cup {config.selectors[name].selector : name \in DOMAIN config.selectors}

\* Where the words of an element may be read: in an element that is seen and
\* asked for, or in the document.
InSeen(page, config, i) ==
    \/ \E a \in DOMAIN page : /\ i \in Span(page, a)
                              /\ Seen(page, config, a)
                              /\ page[a].hits \cap Wanted(config) # {}
    \/ config.container = Nothing /\ "self" \in Wanted(config)

\* The page with all the rest wiped out: the matches and attributes of what is
\* not seen, and the words in nothing that is.
Masked(page, config) ==
    [i \in DOMAIN page |->
       [page[i] EXCEPT !.hits = IF Seen(page, config, i) THEN @ ELSE {},
                       !.attrs = IF Seen(page, config, i) THEN @ ELSE [x \in {} |-> <<>>],
                       !.words = IF InSeen(page, config, i) THEN @ ELSE <<>>]]

\* A trap has a say in a record only by its words, and only as part of the text
\* of an element around it that is asked for and is no trap; in a collection,
\* neither has what is in no container but one that is a trap.  (The extractor
\* calls filter_static_elements in two places; get_text hides nothing.)
TrapsOnlyInText ==
    given # Nothing =>
        Extract(given.page, given.config)
            = Extract(Masked(given.page, given.config), given.config)

\* The two parsers judge a page alike, with two exceptions: an error page, which
\* the dynamic parser reads like any other unless it blocks, and a collection
\* of blank records, which the static parser takes for data.
SameVerdict ==
    given # Nothing =>
        LET x == Extract(given.page, given.config)
            static == StaticOutcome(given.status, x)
            dynamic == DynamicOutcome(given.status, x)
        IN  static # dynamic =>
              \/ given.status >= 400 /\ given.status \notin {403, 429}
              \/ /\ x.list /\ x.items # <<>>
                 /\ \A i \in DOMAIN x.items : BlankItem(x.items[i])
                 /\ static = "data" /\ dynamic = "INVALID_SCHEMA"
=============================================================================
