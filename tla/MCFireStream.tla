---------------------------- MODULE MCFireStream ----------------------------
(* Model checking of FireStream: frames of no, little and too much payload. *)
EXTENDS FireStream

SmallFrames == {[id |-> 1, payload |-> <<>>], [id |-> 2, payload |-> <<1, 2>>],
                [id |-> 3, payload |-> <<0, 1, 2, 3>>]}

Choice(version, recordVersion, offer, split) ==
    [version |-> version, recordVersion |-> recordVersion, offer |-> offer, split |-> split]
Both == {"RC4SHA", "RC4MD5"}

\* The combinations of conn_test.go, and two clients that cannot be served.
SomeHellos == {Choice("ssl30", "ssl30", Both, FALSE),
               Choice("tls10", "ssl30", {"RC4MD5", "other"}, FALSE),
               Choice("tls10", "tls10", Both, FALSE),
               Choice("tls10", "tls10", Both, TRUE),
               Choice("tls10", "tls10", {"other"}, FALSE)}
=============================================================================
