-------------------------- MODULE MCAuthScheduler --------------------------
(* Three credentials, two providers, one model.                            *)
EXTENDS AuthScheduler, TLC

CONSTANTS codex, gemini, m1

TwoProviders == {codex, gemini}
Codex == {codex}
ThreeCreds == 1 .. 3
TwoParents == {1, 2}
OneModel == {m1}
TwoPriorities == {0, 1}

Shape(p, priority, parent, ws, off, models) ==
    [provider |-> p, priority |-> priority, parent |-> parent, ws |-> ws,
     off |-> off, models |-> models]

SomeShapes ==
    << { Shape(codex,  0, 0, FALSE, FALSE, {m1}), Shape(codex,  1, 0, FALSE, FALSE, {m1}) },
       { Shape(codex,  0, 0, TRUE,  FALSE, {m1}), Shape(gemini, 0, 1, FALSE, FALSE, {m1}) },
       { Shape(codex,  0, 0, FALSE, FALSE, {}),   Shape(gemini, 0, 2, FALSE, FALSE, {m1}),
         Shape(codex,  0, 0, FALSE, TRUE,  {m1}) } >>

(* Free; an error; an error after a quota error, whose recovery is further *)
(* away.                                                                   *)
SomeHolds ==
    { [exceeded |-> FALSE, retry |-> 0, recover |-> 0],
      [exceeded |-> FALSE, retry |-> 1, recover |-> 0],
      [exceeded |-> TRUE,  retry |-> 1, recover |-> 2] }

Request(route, pin, ws, tried) ==
    [route |-> route, model |-> m1, pin |-> pin, ws |-> ws, tried |-> tried]

SomeRequests ==
    { Request(<<codex>>, NoCred, TRUE,  {}),
      Request(<<gemini>>, NoCred, FALSE, {}),
      Request(<<gemini, codex>>, NoCred, FALSE, {}),
      Request(<<gemini, codex>>, NoCred, FALSE, {2}),
      Request(<<gemini, codex>>, 1, FALSE, {}) }
=============================================================================
