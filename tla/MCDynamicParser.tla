--------------------------- MODULE MCDynamicParser ---------------------------
(* A small instance of the shared browser, and pages and configurations for *)
(* the extractor, for TLC.                                                   *)
EXTENDS Browser, Extraction, TLC

CONSTANTS p1, p2, p3, b1, b2, b3, b4

ThreeParses == {p1, p2, p3}
FourBrowsers == {b1, b2, b3, b4}

\* Elements: with words, blank, with an attribute, and a trap of each kind.
Plain == [tag |-> "p", style |-> "", classes |-> {}, hidden |-> FALSE, href |-> "",
          hits |-> {"p"}, words |-> <<"x">>, attrs |-> [id \in {} |-> <<>>], last |-> 0]
Empty == [Plain EXCEPT !.words = <<>>]
Link == [Plain EXCEPT !.tag = "a", !.href = "/x", !.hits = {"a", "p"},
                      !.attrs = [id \in {"href"} |-> <<"/x">>]]
Bare == [Plain EXCEPT !.hits = {"a"}]   \* matches like a link, without href
Trap == [Plain EXCEPT !.classes = {"sr-only"}, !.words = <<"t">>]
Traps == {Trap, [Plain EXCEPT !.style = "display:none"], [Plain EXCEPT !.hidden = TRUE],
          [Link EXCEPT !.href = "#"]}

Card == [Plain EXCEPT !.tag = "div", !.hits = {"card"}]
TrapCard == [Card EXCEPT !.classes = {"sr-only"}]
NoScript == [Card EXCEPT !.tag = "noscript", !.hits = {}]
Outer == {Card, [Card EXCEPT !.hits = {}], TrapCard, NoScript}

\* Pages of up to three elements, in every shape: what is in what.
Shaped(page, shape) == [i \in DOMAIN page |-> [page[i] EXCEPT !.last = shape[i]]]
SomePages ==
    {<<>>} \cup {Shaped(<<e>>, <<1>>) : e \in Outer \cup Traps \cup {Plain, Empty, Link, Bare}}
      \cup {Shaped(<<e, d>>, s) : e \in Outer \cup {Plain, Empty},
                                  d \in Traps \cup {Card, TrapCard, Plain, Empty, Link, Bare},
                                  s \in {<<1, 2>>, <<2, 2>>}}
      \cup {Shaped(<<e, d, c>>, s) : e \in Outer, d \in {Card, TrapCard, Plain, Trap},
                                     c \in {Plain, Trap},
                                     s \in {<<1, 2, 3>>, <<2, 2, 3>>, <<1, 3, 3>>,
                                            <<3, 2, 3>>, <<3, 3, 3>>}}

Field == [plain |-> TRUE, selector |-> "p", attribute |-> Nothing, default |-> <<>>,
          multiple |-> FALSE]
Spec1 == [Field EXCEPT !.plain = FALSE]
SomeFields == {Field, Spec1, [Spec1 EXCEPT !.multiple = TRUE],
               [Spec1 EXCEPT !.selector = "a", !.attribute = "href"],
               [Spec1 EXCEPT !.selector = "a", !.attribute = "href", !.multiple = TRUE],
               [Spec1 EXCEPT !.selector = "self"], [Spec1 EXCEPT !.default = <<<<"none">>>>]}

SomeConfigs ==
    [container : {Nothing, "card"},
     selectors : [{"field"} -> SomeFields] \cup [{"field", "other"} -> {Field, Spec1}]]

\* A behaviour is either of the pod or the reading of one page: neither has a
\* part in the other.
MCInit == Init /\ given = Nothing

Parse(p) ==
    \/ given = Nothing /\ Begin(p) /\ UNCHANGED given
    \/ Reuse(p) /\ UNCHANGED given
    \/ Recycle(p) /\ UNCHANGED given
    \/ First(p) /\ UNCHANGED given
    \/ Launch(p) /\ UNCHANGED given
    \/ LaunchFails(p) /\ UNCHANGED given
    \/ Open(p) /\ UNCHANGED given
    \/ End(p) /\ UNCHANGED given

MCNext ==
    \/ \E p \in Parses : Parse(p)
    \/ Crash /\ UNCHANGED given
    \/ given = Nothing /\ Stop /\ UNCHANGED given
    \/ CloseAtStop /\ UNCHANGED given
    \/ count = 0 /\ browser = None /\ running = "yes" /\ Read /\ UNCHANGED vars

MCSpec == MCInit /\ [][MCNext]_<<vars, given>> /\ Fairness
=============================================================================
