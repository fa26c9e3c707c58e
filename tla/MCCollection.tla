---------------------------- MODULE MCCollection ----------------------------
(***************************************************************************)
(* A finite instance of Collection for TLC: two sources together, of which *)
(* the first may leave out URLs, and each of the others alone.             *)
(***************************************************************************)
EXTENDS Collection, TLC

CONSTANTS u1, u2, u3, t1, t2, t3

ThreeUrls == {u1, u2, u3}
ThreeTitles == {t1, t2, t3}

Pairs == {<<"greenhouse", "rss">>}
Alone == {<<"hackernews">>, <<"reddit">>, <<"github_trending">>, <<"arxiv">>, <<"remoteok">>,
          <<"lever">>, <<"yc_jobs">>, <<"unknown">>}
EachSource == Pairs \cup Alone

Symmetry == Permutations(ThreeUrls) \cup Permutations(ThreeTitles)

=============================================================================
