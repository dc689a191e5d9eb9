--------------------------- MODULE MCNotifications ---------------------------
EXTENDS Notifications, TLC
CONSTANTS t1, t2, u1, u2, s1, s2, s3

\* Two connections of one user, one of a colleague, one of another tenant.
MCIdentity == s1 :> <<t1, u1>> @@ s2 :> <<t1, u1>> @@ s3 :> <<t2, u1>>
=============================================================================
