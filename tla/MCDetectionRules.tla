-------------------------- MODULE MCDetectionRules --------------------------
(***************************************************************************)
(* A small instance of DetectionRules for TLC: a source that tries logins  *)
(* at three decoys and looks for sensitive paths.                          *)
(***************************************************************************)
EXTENDS DetectionRules, TLC

CONSTANTS ip, unknown, d1, d2, d3, home, admin, env, u1, u2, r1, r2

MCSources == {ip, unknown}
MCDecoys == {d1, d2, d3}
MCPaths == {home, admin, env}
MCSensitive == {admin, env}
MCUsers == {u1, u2}
MCRequests == {r1, r2}
MCLimits == {2}
MCVerdicts == {"closed"}

Login(t, d, u) ==
    [at |-> t, src |-> ip, decoy |-> d, path |-> home, login |-> TRUE,
     user |-> u, probes |-> {}, recon |-> FALSE, request |-> r1]
Look(t, s, d, p) ==
    [at |-> t, src |-> s, decoy |-> d, path |-> p, login |-> FALSE,
     user |-> NoUser, probes |-> {}, recon |-> FALSE, request |-> r2]

(* Logins and two sensitive paths at three decoys, in one window; and the  *)
(* first event once more, when only the later ones are in a window.        *)
MCAttr ==
    <<Look(0, ip, d1, env), Login(1, d2, u1),
      [Look(2, ip, d3, admin) EXCEPT !.recon = TRUE, !.probes = {"xss_probe"}],
      Login(3, d1, u2), Look(5, ip, d1, env)>>
MCEvents == DOMAIN MCAttr
=============================================================================
