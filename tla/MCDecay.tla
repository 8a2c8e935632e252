------------------------------ MODULE MCDecay -------------------------------
(***************************************************************************)
(* exp(-0.05 * k) in millionths, rounded to nearest, for k in 0..100: the  *)
(* values of the exponential in getCurrentPoints that TLC works with.      *)
(***************************************************************************)
EXTENDS Integers, Sequences

Exponential ==
    << 951229, 904837, 860708, 818731, 778801, 740818, 704688, 670320, 637628, 606531,
      576950, 548812, 522046, 496585, 472367, 449329, 427415, 406570, 386741, 367879,
      349938, 332871, 316637, 301194, 286505, 272532, 259240, 246597, 234570, 223130,
      212248, 201897, 192050, 182684, 173774, 165299, 157237, 149569, 142274, 135335,
      128735, 122456, 116484, 110803, 105399, 100259, 95369, 90718, 86294, 82085,
      78082, 74274, 70651, 67206, 63928, 60810, 57844, 55023, 52340, 49787,
      47359, 45049, 42852, 40762, 38774, 36883, 35084, 33373, 31746, 30197,
      28725, 27324, 25991, 24724, 23518, 22371, 21280, 20242, 19255, 18316,
      17422, 16573, 15764, 14996, 14264, 13569, 12907, 12277, 11679, 11109,
      10567, 10052, 9562, 9095, 8652, 8230, 7828, 7447, 7083, 6738 >>

MCMaxDecay == Len(Exponential)
MCDecay == [k \in 0..MCMaxDecay |-> IF k = 0 THEN 1000000 ELSE Exponential[k]]
==============================================================================
