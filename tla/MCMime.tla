------------------------------- MODULE MCMime -------------------------------
(***************************************************************************)
(* The messages on which Mime is checked: every tree of up to four parts   *)
(* over a choice of containers and leaves, larger trees over the ones that *)
(* usual mail is made of, and threads of two messages that meet the        *)
(* budgets.                                                                *)
(***************************************************************************)
EXTENDS Mime

Part(kind) == [kind |-> kind, named |-> FALSE, attached |-> FALSE, start |-> 0,
               size |-> 1, blank |-> FALSE, decodes |-> "ok"]
WithName(p) == [p EXCEPT !.named = TRUE]
AsAttachment(p) == [p EXCEPT !.attached = TRUE]
Damaged(p, how) == [p EXCEPT !.decodes = how]

Image == Part("image")
Related(n) == [Part("related") EXCEPT !.start = n]

\* A tree is a sequence of depths, each at most one more than the one before.
Shapes(n) == {d \in [1..n -> 0..(n - 1)] :
                d[1] = 0 /\ \A i \in 2..n : d[i] \in 1..(d[i - 1] + 1)}

\* A part is a container when the next one is deeper.
Opens(d, i) == i < Len(d) /\ d[i + 1] > d[i]

At(p, depth) ==
    [depth |-> depth, kind |-> p.kind, named |-> p.named, attached |-> p.attached,
     start |-> p.start, size |-> p.size, blank |-> p.blank, decodes |-> p.decodes]

Trees(n, containers, leaves) ==
    UNION {{[i \in 1..n |-> At(f[i], d[i])] :
              f \in {g \in [1..n -> containers \cup leaves] :
                       \A i \in 1..n : g[i] \in (IF Opens(d, i) THEN containers ELSE leaves)}} :
             d \in Shapes(n)}

AllContainers == {Part("alternative"), Related(0), Related(2), Part("signed"),
                  Part("encrypted"), Part("mixed"), AsAttachment(Part("mixed"))}
AllLeaves == {Part("plain"), WithName(Part("html")), [Part("html") EXCEPT !.blank = TRUE],
              Part("calendar"), Image, Damaged(Image, "badbase64")}
SmallLeaves == {Damaged(Part("plain"), "badqp"), AsAttachment(Part("plain")),
                [Damaged(Image, "unknown") EXCEPT !.size = 4], [Part("html") EXCEPT !.size = 4],
                Part("text"), Part("signature"), [Image EXCEPT !.size = 2],
                Part("mixed"), Part("html"), Damaged(Part("html"), "badbase64")}
UsualContainers == {Part("alternative"), Related(0), Part("mixed")}
UsualLeaves == {Part("plain"), Part("html"), Image}

Messages == Trees(1, AllContainers, AllLeaves \cup SmallLeaves)
            \cup Trees(3, AllContainers, AllLeaves \cup SmallLeaves)
            \cup Trees(4, AllContainers, AllLeaves)
            \cup Trees(5, UsualContainers, UsualLeaves)

Pairs == Trees(3, {Part("mixed")}, {Part("calendar"), WithName(Part("plain")), Part("html")})

MCThreads == {<<m>> : m \in Messages} \cup (Pairs \X Pairs) \cup {<<p, p, p>> : p \in Pairs}
=============================================================================
