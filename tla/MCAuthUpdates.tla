--------------------------- MODULE MCAuthUpdates ---------------------------
(* One source of each kind: a race needs two goroutines about one          *)
(* credential, and each kind has its own.                                  *)
EXTENDS AuthUpdates, TLC

CONSTANTS f1, k1, s1, r1, h1, v1, claude, gemini
OneFile == {f1}
OneKey == {k1}
OneChannel == {s1}
OneReload == {r1}
OneHook == {h1}
OneVersion == {v1}
TwoProviders == {claude, gemini}
ProviderOf == f1 :> claude @@ k1 :> claude @@ s1 :> gemini
=============================================================================
