----------------------------- MODULE MC_Settings -----------------------------
EXTENDS Settings

CONSTANTS s1, s2, s3, none, factory, zero, v1

MC_Serials == {s1, s2, s3}
MC_Vals == {factory, zero, v1}

====
