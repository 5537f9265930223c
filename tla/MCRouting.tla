------------------------------- MODULE MCRouting -------------------------------
EXTENDS RequestRouting, TLC
CONSTANTS x1, x2, x3, h1, h2
OneInstance == x1 :> h1
OneHost == x1 :> h1 @@ x2 :> h1
TwoHosts == x1 :> h1 @@ x2 :> h1 @@ x3 :> h2
================================================================================
