--------------------------- MODULE ScreensInsight ---------------------------
(***************************************************************************)
(* What the screens of intelligence, opportunities, the COO layer, search  *)
(* and AI show: each render function of app/bot/screens as the set of      *)
(* keyboards it may answer with. The text of a screen and the figures in   *)
(* it are left out; where the keyboard depends on the data (a list that    *)
(* may be empty, a record that may be missing), every case is in the set.  *)
(***************************************************************************)
EXTENDS Menus

-----------------------------------------------------------------------------
(* Intelligence, predictions and reality                                   *)
render_intelligence_home == {intelligence_menu}
render_intelligence_details_page == {intelligence_details_menu}
render_intelligence_quality_page(details) ==
    {IF details THEN page_menu("intelligence:quality") ELSE intelligence_quality_menu}
render_decision_quality_trends_page(details) ==
    {IF details THEN page_menu("intelligence:quality:trends") ELSE
         decision_quality_trends_menu}
render_category_trends_page == {category_trends_menu}
render_prediction_preview_page == {prediction_preview_menu}
render_prediction_feedback_page == {prediction_preview_menu}
render_prediction_outcome_feedback_page == {page_menu("intelligence:quality:trends")}
render_reality_check_page(details) ==
    {IF details THEN page_menu("reality:check") ELSE reality_check_menu}
render_prediction_outcomes_page == {prediction_outcomes_menu}
render_calibration_page == {calibration_menu}
render_accuracy_by_category_page == {accuracy_by_category_menu}
render_decision_review_page(details) ==
    {IF details THEN decision_review_details_menu ELSE decision_review_menu}
render_owner_validation_page == {owner_validation_result_menu}
render_evidence_notes_page(record_note) ==
    {IF record_note THEN evidence_note_recorded_menu ELSE evidence_notes_menu}
render_knowledge_memory_page == {knowledge_memory_menu}
render_decision_timeline_page == {decision_timeline_menu}
render_intelligence_runs_page == {intelligence_run_menu({"intelligence:run_detail:#"})}
render_intelligence_run_detail_page == {page_menu("intelligence:runs")}
render_intelligence_signals_page == {page_menu("intelligence")}
render_intelligence_patterns_page == {page_menu("intelligence")}
render_intelligence_trends_page == {trends_menu}
render_intelligence_trend_details_page == {page_menu("intelligence")}

-----------------------------------------------------------------------------
(* Learning                                                                *)
render_learning_center_page == {learning_center_menu}
render_learning_details_page == {learning_details_menu}
render_playbooks_page == {learning_playbooks_menu({"playbook:#"}, "intelligence:learning")}
render_playbook_detail_page ==
    {playbook_detail_menu, page_menu("intelligence:learning:playbooks")}
render_playbook_history_page ==
    {page_menu("playbook:#"), page_menu("intelligence:learning:playbooks")}
render_outcome_memory_page == {page_menu("intelligence:learning")}
render_confidence_changes_page == {page_menu("intelligence:learning")}
render_automation_learning_page == {page_menu("intelligence:learning")}
render_opportunity_learning_page == {page_menu("intelligence:learning")}
render_executive_memory_briefing_page == {page_menu("intelligence:learning")}

-----------------------------------------------------------------------------
(* Opportunities, creators and posts                                       *)
render_opportunities_home == {opportunities_menu({"opportunity:#"}, "menu")}
social_score_buttons ==
    Keys({"social_score:#:create_opportunity", "social_score:#:strategies",
         "social_score:#:assign", "social_score:#:skipped", "social_score:#:record_result"},
         "opportunities")
render_social_opportunity_intelligence_page == {social_score_buttons}
render_social_score_strategies_page == {page_menu("opportunities:score")}
discovery_menu ==
    Keys({"social_lead:#", "opportunities:discovery:add_source",
         "opportunities:discovery:paste_post", "opportunities:discovery:leads", "help:@"},
         "opportunities")
render_social_discovery_page == {discovery_menu}
render_social_discovery_instruction_page == {page_menu("opportunities:discovery")}
render_social_discovery_leads_page ==
    {choice_menu({"social_lead:#"}, "opportunities:discovery"),
         page_menu("opportunities:discovery")}
social_lead_menu ==
    Keys({"social_lead:#:create_opportunity", "social_lead:#:angles",
         "social_lead:#:reviewed", "social_lead:#:skipped", "social_lead:#:route_alert"},
         "opportunities:discovery:leads")
render_social_discovery_lead_detail_page ==
    {social_lead_menu, page_menu("opportunities:discovery")}
render_social_discovery_lead_angles_page ==
    {Keys({"social_lead:#:reviewed", "social_lead:#:skipped"}, "social_lead:#"),
         page_menu("opportunities:discovery")}
profile_leads_menu ==
    Keys({"social_profile:#", "social_profile:#:create_opportunity", "help:@"},
         "opportunities")
render_comment_profile_leads_page == {profile_leads_menu}
social_profile_detail_menu ==
    Keys({"social_profile:#:watch", "social_profile:#:create_opportunity",
         "social_profile:#:route_alert", "social_profile:#:used", "social_profile:#:ignore",
         "social_profile:#:details"}, "opportunities:profiles")
render_social_profile_detail_page ==
    {social_profile_detail_menu, page_menu("opportunities:profiles")}
render_comment_section_review_page ==
    {Keys({"opportunities:discovery", "opportunities:profiles", "social_profile:#",
         "social_profile:#:create_opportunity"}, "opportunities"), Keys({"help:@"},
         "opportunities")}
render_creator_intake_page(step) ==
    IF step = "start"
    THEN {choice_menu({"opportunities:creators:add:platform:@"},
         "opportunities:creators")}
    ELSE {page_menu("opportunities:creators:add")}
render_opportunity_intake_page(step) ==
    CASE step = "start" -> {choice_menu({"opportunities:add:source:creator_watch",
             "opportunities:add:source:own_post", "opportunities:add:source:manual"},
             "opportunities:command")}
      [] step = "source" -> {choice_menu({"opportunities:add:source:@:#",
             "opportunities:creators", "opportunities:posts"}, "opportunities:add")}
      [] step = "chosen" -> {choice_menu({"opportunities:add:source:@:platform:@"},
             "opportunities:add")}
      [] OTHER -> {page_menu("opportunities:add")}
render_post_intake_page(step) ==
    CASE step = "start" -> {choice_menu({"opportunities:posts:add:model:#",
             "models:create"}, "opportunities:posts")}
      [] step = "model" -> {choice_menu({"opportunities:posts:add:model:#:platform:@"},
             "opportunities:posts:add")}
      [] OTHER -> {page_menu("opportunities:posts:add")}
render_opportunity_command_center_page == {opportunity_command_menu}
render_creator_watchlist_page == {creator_watch_menu({"creator:#"})}
render_creator_watch_detail_page ==
    {creator_watch_detail_menu, page_menu("opportunities:creators")}
render_creator_post_alert_prompt_page ==
    {page_menu("creator:#"), page_menu("opportunities:creators")}
render_creator_post_alert_detail_page ==
    {page_menu("opportunities:creators"), Keys({"opportunity:#",
         "opportunity:#:strategies", "opportunities", "creator_alert:#:reviewed"},
         "creator:#")}
render_post_watch_page == {post_watch_menu({"post:#"})}
render_post_watch_detail_page == {post_watch_detail_menu, page_menu("opportunities:posts")}
render_own_post_alert_prompt_page == {page_menu("post:#"), page_menu("opportunities:posts")}
render_own_post_alert_detail_page ==
    {page_menu("opportunities:posts"), Keys({"opportunity:#",
         "own_post_alert:#:reviewed"}, "post:#")}
render_opportunity_list_page == {opportunities_menu({"opportunity:#"}, "opportunities")}
render_opportunity_detail_page == {opportunity_detail_menu, page_menu("opportunities:list")}
render_social_discovery_lead_action_page(action) ==
    CASE action = "create_opportunity" -> render_opportunity_detail_page
      [] action = "angles" -> render_social_discovery_lead_angles_page
      [] action = "route_alert" -> {page_menu("social_lead:#")}
      [] OTHER -> {page_menu("opportunities:discovery")}
render_social_profile_action_page(action) ==
    CASE action = "details" -> render_social_profile_detail_page
      [] action = "create_opportunity" -> render_opportunity_detail_page \cup
             {page_menu("social_profile:#")}
      [] action = "route_alert" -> {page_menu("social_profile:#")}
      [] OTHER -> {page_menu("opportunities:profiles")}
render_opportunity_strategies_page ==
    {choice_menu({"opportunity:#:strategies:regenerate"}, "opportunity:#"),
         page_menu("opportunities:list")}
render_opportunity_assignment_page ==
    {choice_menu({"opportunity:#:assign:#", "opportunity:#"}, "opportunity:#"),
         page_menu("opportunities:list")}
render_opportunity_status_page ==
    {choice_menu({"opportunity:#:status:@"}, "opportunity:#"),
         page_menu("opportunities:list")}
render_opportunity_result_status_page ==
    {choice_menu({"opportunity:#:result:@"}, "opportunity:#"),
         page_menu("opportunities:list")}
render_social_score_action_page(action) ==
    CASE action = "create_opportunity" -> render_opportunity_detail_page
      [] action = "strategies" -> render_social_score_strategies_page
      [] action = "assign" -> render_opportunity_assignment_page
      [] action = "record_result" -> render_opportunity_result_status_page
      [] OTHER -> render_social_opportunity_intelligence_page
render_creator_model_assignment_page ==
    {choice_menu({"creator:#:assign_model:#", "models:create"}, "creator:#"),
         page_menu("opportunities:creators")}
render_creator_chatter_assignment_page ==
    {choice_menu({"creator:#:assign_chatter:#", "creator:#"}, "creator:#"),
         page_menu("opportunities:creators")}
render_creator_priority_page ==
    {choice_menu({"creator:#:priority:@"}, "creator:#"),
         page_menu("opportunities:creators")}
render_post_chatter_assignment_page ==
    {choice_menu({"post:#:assign_chatter:#", "post:#"}, "post:#"),
         page_menu("opportunities:posts")}
render_manager_opportunity_page == {opportunities_menu({}, "menu")}
render_opportunity_learning_v2_page == {page_menu("opportunities")}
render_chatter_workspace_page == {chatter_workspace_menu}
render_team_activation_page == {team_activation_menu({"user:#"})}
render_opportunity_results_page == {page_menu("opportunities")}

-----------------------------------------------------------------------------
(* The best opportunity                                                    *)
best_opportunity_menu ==
    Keys({"opportunity:#", "opportunity:#:strategies", "opportunity:#:assign",
         "opportunity:#:status", "opportunity_prediction:#:details"}, "opportunities")
render_best_opportunity_page == {best_opportunity_menu, page_menu("opportunities")}
render_opportunity_prediction_detail_page ==
    {best_opportunity_menu, page_menu("opportunities")}

-----------------------------------------------------------------------------
(* The COO layer and decisions                                             *)
render_coo_dashboard_page == {coo_dashboard_menu}
render_today_top5_page ==
    {top5_actions_menu({"agency_activation", "model:#:complete", "account:#", "accounts",
         "task:#", "tasks", "incident:#", "incidents", "opportunity:#",
         "opportunities:command", "notification_targets", "automation_run:#",
         "automations:runs"})}
render_readiness_v2_page == {readiness_v2_menu(blocker_pages)}
render_manager_queue_page == {manager_queue_menu}
render_my_work_page == {my_work_menu}
render_coo_briefing_page(details) ==
    IF details THEN {decision_details_menu}
    ELSE {coo_briefing_menu}
render_decision_top_priority_page ==
    {decision_top_priority_menu(page) : page \in decision_pages \cup {"today_priorities"}}
render_decision_details_page == {decision_details_menu}
render_decision_feedback_page == {decision_details_menu}
render_decision_memory_page == {decision_memory_menu}
render_load_balancer_page == {page_menu("coo")}
render_executive_mode_page == {executive_mode_menu}

-----------------------------------------------------------------------------
(* Search                                                                  *)
render_search_center_page == {search_center_menu}
render_search_guided_page == {search_center_menu, search_results_menu}
render_search_history_page == {search_history_menu}
render_search_results_page == {search_results_menu, search_center_menu}
render_search_settings_page == {search_settings_menu}
render_search_observability_detail == {search_center_menu}

-----------------------------------------------------------------------------
(* The AI brain                                                            *)
render_grounded_result == {ai_brain_menu("ai_brain")}
render_ai_brain_page(details) ==
    {ai_brain_menu(IF details THEN "ai_brain" ELSE "owner_advanced")}
render_ai_settings_page == {ai_settings_menu}
render_ai_critic_status_page == {ai_critic_menu}
render_ai_evidence_summary_page == render_grounded_result
render_ai_search_summary_page == render_grounded_result
render_ai_coo_briefing_page == render_grounded_result
render_ai_opportunity_explanation_page == render_grounded_result
=============================================================================
