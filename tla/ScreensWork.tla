---------------------------- MODULE ScreensWork -----------------------------
(***************************************************************************)
(* What the screens of models, accounts, proxies, work and automations     *)
(* show: each render function of app/bot/screens as the set of keyboards   *)
(* it may answer with. The text of a screen and the figures in it are left *)
(* out; where the keyboard depends on the data (a list that may be empty,  *)
(* a record that may be missing), every case is in the set.                *)
(***************************************************************************)
EXTENDS Menus

-----------------------------------------------------------------------------
(* Model brands                                                            *)
render_models_home == {models_menu}
render_model_list_page == {model_list_menu({"model:#"})}
render_model_dashboard_page == {page_menu("models")}
render_model_detail_page == {model_detail_menu, page_menu("models:list")}
render_model_edit_page == {model_edit_menu, page_menu("models:list")}
render_model_field_edit_page == {page_menu("model:#:edit"), page_menu("models:list")}
render_model_team_page == {model_team_menu, page_menu("models:list")}
render_model_assignment_page ==
    {model_member_choice_menu({"model:#:team:assign:@:#"}), page_menu("models:list")}
render_model_remove_assignment_page ==
    {model_member_choice_menu({"model:#:team:remove:@:#"}), page_menu("models:list")}
render_model_audit_page == {page_menu("model:#"), page_menu("models:list")}
render_model_placeholder_page == {page_menu("model:#"), page_menu("models:list")}
render_model_creators_page ==
    {account_list_menu({"setup:wizard:creators", "creator:#"}, "model:#"),
         page_menu("models:list")}
render_model_opportunities_page ==
    {account_list_menu({"setup:wizard:opportunities", "opportunity:#"}, "model:#"),
         page_menu("models:list")}

-----------------------------------------------------------------------------
(* Accounts                                                                *)
render_accounts_home == {accounts_menu}
render_account_list_page(back_to) == {account_list_menu({"account:#"}, back_to)}
render_account_model_choice_page ==
    {account_model_choice_menu({"setup:wizard:model", "accounts:add:model:#"})}
render_account_platform_choice_page == {account_platform_menu, page_menu("accounts:add")}
render_account_input_page == {page_menu("accounts:add:model:#"), page_menu("accounts:add")}
render_accounts_by_model_page ==
    {account_list_menu({"setup:wizard:model", "accounts:model:#"}, "accounts")}
render_accounts_by_platform_page == {platform_filter_menu}
render_account_detail_page == {account_detail_menu, page_menu("accounts:list")}
render_account_proxy_assignment_page ==
    {account_proxy_choice_menu({"account:#:proxy:assign:#"}), page_menu("accounts:list")}
render_account_auth_prompt_page == {page_menu("account:#"), page_menu("accounts:list")}
render_account_audit_page == {page_menu("account:#"), page_menu("accounts:list")}

-----------------------------------------------------------------------------
(* Proxies                                                                 *)
render_proxies_home ==
    {choice_menu({"proxies:olympix:paste", "proxies:rotation_help", "proxies:list",
         "proxies:advanced", "proxy:#:assign", "proxy:#:rotate_preview", "proxy:#:advanced",
         "help_copilot:@"}, "menu")}
render_proxy_rotation_help_page == {page_menu("proxies")}
render_proxy_advanced_page == {proxies_advanced_menu}
render_proxy_add_page == {proxy_add_menu}
render_olympix_proxy_paste_page == {page_menu("proxies")}
render_proxy_list_page ==
    {proxy_list_menu({"proxy:#"}, "proxies"), choice_menu({"proxies:olympix:paste",
         "proxies:rotation_help", "help_copilot:@", "proxy:#:assign", "proxy:#:rotate_preview",
         "proxy:#:manage"}, "proxies")}
render_olympix_proxy_wizard_page == {proxy_add_menu}
render_proxy_entry_check_page == {proxy_entry_check_menu}
render_proxy_real_check_pilot_page == {proxy_real_check_pilot_menu({"proxy:#"})}
render_proxy_detail_page == {proxy_detail_menu, page_menu("proxies:list")}
render_proxy_manage_page == {proxy_manage_menu, page_menu("proxies:list")}
render_proxy_import_success_page == {proxy_import_success_menu, page_menu("proxies")}
render_proxy_rotation_preview_page ==
    {proxy_rotation_preview_menu, page_menu("proxies:list")}
render_proxy_rotation_result_page == {proxy_result_menu, page_menu("proxies:list")}
render_proxy_rollback_result_page == {proxy_result_menu, page_menu("proxies:list")}
render_proxy_no_rollback_page == {page_menu("proxy:#:manage")}
render_proxy_check_result_page == {proxy_result_menu, page_menu("proxies:list")}
render_proxy_location_page == {page_menu("proxy:#"), page_menu("proxies:list")}
render_proxy_detail_advanced_page == {proxy_detail_advanced_menu, page_menu("proxies:list")}
render_proxy_assigned_accounts_page ==
    {page_menu("proxies:list")} \cup render_account_list_page("proxy:#")
render_proxy_assign_account_page ==
    {proxy_account_choice_menu({"proxy:#:assign:#"}), page_menu("proxies:list")}
render_proxy_remove_account_page ==
    {proxy_account_choice_menu({"proxy:#:remove:#"}), page_menu("proxies:list")}
render_proxy_archive_confirm_page == {proxy_archive_confirm_menu, page_menu("proxies:list")}
render_proxy_delete_confirm_page == {proxy_delete_confirm_menu, page_menu("proxies:list")}
render_proxy_archive_result_page == {page_menu("proxies")}
render_proxy_delete_result_page == {page_menu("proxies")}
render_proxy_cleanup_result_page == {page_menu("proxies")}
render_accounts_missing_proxy_page ==
    {choice_menu({"accounts:add", "setup:wizard:model"}, "proxies"), page_menu("proxies")}
         \cup render_account_list_page("proxies")
render_proxy_simulation_page == {page_menu("proxies")}
render_infrastructure_dashboard_page == {page_menu("proxies")}
render_proxy_audit_page == {page_menu("proxy:#"), page_menu("proxies:list")}
render_proxy_check_history_page == {page_menu("proxy:#"), page_menu("proxies:list")}

-----------------------------------------------------------------------------
(* Tasks                                                                   *)
render_tasks_home == {tasks_menu}
render_task_list_page(back_to) == {task_list_menu({"task:#"}, back_to)}
render_task_detail_page == {task_detail_menu, page_menu("tasks:list")}
render_task_assignment_page ==
    {task_user_choice_menu({"task:#:assign:#"}), page_menu("tasks:list")}

-----------------------------------------------------------------------------
(* Incidents                                                               *)
render_incidents_home == {incidents_menu}
render_incident_list_page(back_to) == {incident_list_menu({"incident:#"}, back_to)}
render_incident_detail_page == {incident_detail_menu, page_menu("incidents:list")}
render_incident_assignment_page ==
    {incident_user_choice_menu({"incident:#:assign:#"}), page_menu("incidents:list")}
render_incident_timeline_page == {page_menu("incident:#"), page_menu("incidents:list")}

-----------------------------------------------------------------------------
(* Reports and recommendations                                             *)
render_reports_home == {reports_menu}
render_executive_dashboard_page == {executive_dashboard_menu}
render_operations_dashboard_page == {operations_dashboard_menu}
render_manager_command_page == {manager_command_menu}
render_chatter_dashboard_page == {page_menu("reports")}
render_va_dashboard_page == {page_menu("reports")}
render_daily_briefing_page == {briefing_menu}
render_daily_digest_page == {daily_digest_menu}
render_accountability_page == {page_menu("reports")}
render_recommendations_page == {recommendations_menu({"decision:top", "recommendation:#"})}
render_recommendation_detail_page ==
    {recommendation_detail_menu, page_menu("reports:executive:recommendations")}
render_recommendation_why_page ==
    {page_menu("recommendation:#"), page_menu("reports:executive:recommendations")}
render_intelligence_briefing_page == {intelligence_briefing_menu}
render_workload_intelligence_page == {page_menu("reports")}

-----------------------------------------------------------------------------
(* Automations                                                             *)
render_automations_home == {automations_menu}
render_automation_rules_page == {automation_rules_menu({"automation:#"})}
render_automation_templates_page == {automation_templates_menu({"automation:#"})}
render_automation_rule_detail_page ==
    {automation_rule_detail_menu, page_menu("automations:rules")}
render_automation_rule_simulations_page ==
    {simulation_runs_menu({"simulation:#"}), page_menu("automations:rules")}
render_automation_rollback_page ==
    {page_menu("automation:#"), page_menu("automations:rules")}
render_automation_approvals_page == {automation_approvals_menu({"approval:#"})}
render_automation_approval_detail_page ==
    {automation_approval_detail_menu, page_menu("automations:approvals")}
render_automation_runs_page == {automation_runs_menu({"automation_run:#"})}
render_automation_run_detail_page ==
    {automation_run_detail_menu({"automation_step:#"}), page_menu("automations:runs")}
render_automation_step_detail_page ==
    {page_menu("automation_run:#"), page_menu("automations:runs")}
render_automation_health_page == {page_menu("automations")}
render_simulation_runs_page == {simulation_runs_menu({"simulation:#"})}
render_simulation_run_detail_page ==
    {simulation_run_detail_menu, page_menu("automations:simulations")}

-----------------------------------------------------------------------------
(* A member's pages and the team                                           *)
render_my_models_page == {model_list_menu({"model:#"})}
render_my_accounts_page == render_account_list_page("menu")
render_my_opportunities_page == {opportunities_menu({"opportunity:#"}, "menu")}
render_client_dashboard_page == {page_menu("menu")}
render_my_reports_page == {page_menu("menu")}
render_my_team_page == {page_menu("menu")}
render_uploads_placeholder_page == {page_menu("menu")}
render_team_qa_page == {team_qa_menu({"team_qa:#"})}
render_team_qa_detail_page == {team_qa_detail_menu, page_menu("team_qa")}
render_notification_digest_mode_page == {notification_digest_mode_menu}
render_scheduled_automations_page == {scheduled_automations_menu}
render_daily_autopilot_page == {daily_autopilot_menu}
=============================================================================
