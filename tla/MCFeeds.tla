-------------------------------- MODULE MCFeeds --------------------------------
(* Feeds' values for TLC: which method each view shows.                          *)
EXTENDS Feeds

LabelsPage == [v \in {"labels"} |-> "get_account_labels"]

ChainPages ==
    [v \in {"networks", "tokens", "picker"} |->
        CASE v = "networks" -> "list_networks"
          [] v = "tokens" -> "list_tokens"
          [] v = "picker" -> "set_token_enabled"]

NetworksPage == [v \in {"networks"} |-> "list_networks"]

TokenPages ==
    [v \in {"tokens", "picker"} |->
        IF v = "tokens" THEN "list_tokens" ELSE "set_token_enabled"]

================================================================================
