----------------------------- MODULE MCCrypto -----------------------------
(* Two threads of an application on one cryptographic runtime.              *)
EXTENDS CryptoRuntime
CONSTANTS c1, c2
====
