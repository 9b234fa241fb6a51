----------------------------- MODULE MCEmsPlan -----------------------------
(* Plans for TLC: a good document, varied in one group of fields at a time. *)
EXTENDS EmsPlan

Bool(b) == [kind |-> "boolean", value |-> IF b THEN 1 ELSE 0, tol |-> 0]
Num(n, t) == [kind |-> "number", value |-> n, tol |-> t]
None == [kind |-> "absent", value |-> 0, tol |-> 0]

Ai == [id |-> "ai", folded |-> "ai", type |-> "number", index |-> 0,
       objects |-> "match", event |-> "complete", class |-> 1,
       qualifier |-> "range8", range |-> "both", min |-> 0, max |-> 3,
       enabled |-> TRUE]
Bi == [Ai EXCEPT !.id = "bi", !.folded = "bi", !.type = "boolean", !.range = "none",
                 !.qualifier = "range16"]

Good == [environment |-> "LAB", simulator |-> FALSE, placeholder |-> FALSE,
         unsupported |-> {}, unready |-> {}, matrix |-> "good", pics |-> "good",
         rows |-> <<Ai, Bi>>,
         poll |-> [enabled |-> TRUE, type |-> "class", classes |-> {1}, point |-> "ai",
                   minimum |-> 1, maximum |-> 1],
         unsolicited |-> [enabled |-> TRUE, classes |-> {1}, point |-> "bi",
                          expected |-> Bool(TRUE)],
         control |-> [enabled |-> TRUE, authorization |-> "approved",
                      mode |-> "SELECT_OPERATE", index |-> 0, point |-> "ai",
                      before |-> Num(0, 0), after |-> Num(2, 0), restored |-> Num(0, 0),
                      operation |-> "act", restoreCommand |-> TRUE, sameTarget |-> TRUE,
                      sameCommand |-> FALSE,
                      interval |-> 1, timeout |-> 1]]

MCNumbers == 0 .. 3

RowDocuments ==
    {[Good EXCEPT !.rows = <<[Ai EXCEPT !.objects = o, !.event = e, !.qualifier = q,
                                        !.index = x, !.range = r, !.min = m], Bi>>] :
        o \in {"match", "mismatch"}, e \in {"none", "partial", "complete"},
        q \in {"range8", "range16"}, x \in {255, 256}, r \in {"none", "one", "both"},
        m \in {0, 4}}
    \cup {[Good EXCEPT !.rows = r] : r \in {<<>>, <<Ai>>,
            <<Ai, [Bi EXCEPT !.folded = "ai"]>>, <<Ai, [Bi EXCEPT !.type = "number"]>>,
            <<[Ai EXCEPT !.enabled = FALSE], Bi>>, <<Ai, [Bi EXCEPT !.enabled = FALSE]>>}}

ScenarioDocuments ==
    {[Good EXCEPT !.poll = [enabled |-> n, type |-> t, classes |-> k, point |-> p,
                            minimum |-> 1, maximum |-> 1],
                  !.unsolicited = [enabled |-> n, classes |-> u, point |-> p,
                                   expected |-> x]] :
        n \in BOOLEAN, t \in {"class", "integrity"}, k \in {{}, {1}, {2}},
        u \in {{}, {1}, {2}}, p \in {"ai", "bi", "zz"},
        x \in {Bool(TRUE), Num(1, 0), Num(3, 1), [Bool(TRUE) EXCEPT !.tol = 1]}}
    \cup {[Good EXCEPT !.control.authorization = a, !.control.enabled = n,
                       !.environment = v, !.simulator = s, !.control.interval = i,
                       !.control.sameTarget = t, !.control.sameCommand = c] :
        a \in {"approved", "placeholder", "absent"}, n \in BOOLEAN,
        v \in {"LAB", "SIMULATOR"}, s \in BOOLEAN, i \in {1, 2}, t \in BOOLEAN,
        c \in BOOLEAN}

ControlDocuments ==
    {[Good EXCEPT !.control.before = Num(b, tb), !.control.after = Num(a, ta),
                  !.control.restored = Num(b, tb)] :
        b \in MCNumbers, a \in MCNumbers, tb \in 0 .. 1, ta \in 0 .. 1}
    \cup {[Good EXCEPT !.control.point = "bi", !.control.before = Bool(b),
                       !.control.after = Bool(a), !.control.restored = Bool(r)] :
        b \in BOOLEAN, a \in BOOLEAN, r \in BOOLEAN}
    \cup {[Good EXCEPT !.environment = v, !.simulator = TRUE, !.control.before = b,
                       !.control.restored = r, !.control.restoreCommand = k] :
        v \in {"LAB", "SIMULATOR"}, b \in {None, Num(0, 0)}, r \in {None, Num(0, 0)},
        k \in BOOLEAN}

\* One field of its own wrong.
SingleFaults ==
    {[Good EXCEPT !.poll.minimum = m, !.control.operation = o] :
        m \in 0 .. 2, o \in {"act", "null"}}
    \cup {[Good EXCEPT !.matrix = m, !.pics = p] :
        m \in {"good", "bad"}, p \in {"good", "bad", "foreign"}}

CapabilityDocuments ==
    {[Good EXCEPT !.unsupported = u, !.unready = r, !.placeholder = h,
                  !.control.index = x, !.poll.type = t, !.poll.classes = {1}] :
        u \in {{}, {"Q00"}, {"Q01"}, {"command"}}, r \in {{}, {"eventObject"}, {"Q28"}},
        h \in BOOLEAN, x \in {0, 256}, t \in {"class"}}
    \cup {[Good EXCEPT !.unsupported = u, !.poll.enabled = n, !.unsolicited.enabled = n,
                       !.control.enabled = n] :
        u \in {{}, {"UNSOLICITED"}, {"COMMAND_STATUS"}, {"G60.V2"}, {"G60.V3"}}, n \in BOOLEAN}

MCDocuments == RowDocuments \cup ScenarioDocuments \cup ControlDocuments
               \cup SingleFaults \cup CapabilityDocuments
=============================================================================
