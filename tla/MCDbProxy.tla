----------------------------- MODULE MCDbProxy -----------------------------
(* A small config file: a cache instance c, database instances m and s,    *)
(* and every list of up to three characters for the latter.                *)
EXTENDS DbProxy

MCKeyOrder == <<"CacheInstances", "DBInstances", "Listen", "aesKey", "c", "extra", "m", "s">>
MCDbTexts == BoundedSeq({"m", "s", ","}, 3) \ {<<>>}
MCCacheTexts == {<<"c">>, <<"c", ",">>}
=============================================================================
